---- MODULE Spec2Model ----
\* State-machine model of pyiron_atomistics' interactive LAMMPS driver
\* (src/pyiron_atomistics/lammps/interactive.py): the live session with its
\* unfolding transform, the getters and setters, the fix_external callback and
\* the life cycle of the engine handle; and of the log parser of
\* src/pyiron_atomistics/sphinx/output_parser.py.
EXTENDS Integers, Sequences, FiniteSets, TLC

\* ---------------------------------------------------------------- bounds
MaxAtoms == 3   \* atoms in a structure / on the processor
MaxForce == 2   \* largest component of a force / stress seed drawn as input
MaxSteps == 3   \* largest n_ionic_steps of calc_md
MaxPrint == 2   \* largest n_print of calc_md
MaxHandles == 2 \* engine handles one job creates
MaxLines == 2   \* lines of a log
MaxItems == 2   \* elements of a list value
MaxLen == 3     \* entries of an array that is split

\* ------------------------------------------------------- 3x3 matrix algebra
Dim == 1..3

Identity == <<<<1, 0, 0>>, <<0, 1, 0>>, <<0, 0, 1>>>>

\* numpy ndarray.T of a 3x3 matrix
Transpose(A) == [i \in Dim |-> [j \in Dim |-> A[j][i]]]

\* np.matmul / @ of two 3x3 matrices
MatMul(A, B) ==
  [i \in Dim |-> [j \in Dim |-> A[i][1] * B[1][j] + A[i][2] * B[2][j] + A[i][3] * B[3][j]]]

\* np.matmul of an (n, 3) array with a 3x3 matrix: every row times the matrix
RowsMat(P, M) ==
  [k \in 1..Len(P) |-> [j \in Dim |-> P[k][1] * M[1][j] + P[k][2] * M[2][j] + P[k][3] * M[3][j]]]

\* np.matrix.trace
Trace(A) == A[1][1] + A[2][2] + A[3][3]

\* ndarray.flatten of an (n, 3) array (row-major)
Flatten(P) == [i \in 1..(3 * Len(P)) |-> P[((i - 1) \div 3) + 1][((i - 1) % 3) + 1]]

\* np.reshape(flat, (n, 3))
Reshape(flat, n) == [k \in 1..n |-> [j \in Dim |-> flat[3 * (k - 1) + j]]]

\* elementwise product of an array of any nesting depth <= 3 with an integer
ScaleVec(v, c) == [j \in DOMAIN v |-> v[j] * c]
ScaleRows(P, c) == [k \in DOMAIN P |-> ScaleVec(P[k], c)]
ScaleTensors(T, c) == [k \in DOMAIN T |-> ScaleRows(T[k], c)]

\* ------------------------------------------------------------- the cells
\* Rotations with integer entries (proper rotations of the cube).
RotZ == <<<<0, 1, 0>>, <<-1, 0, 0>>, <<0, 0, 1>>>>
RotX == <<<<1, 0, 0>>, <<0, 0, 1>>, <<0, -1, 0>>>>
RotZX == MatMul(RotZ, RotX)
Rotations ==
  {Identity, RotZ, RotX, RotZX, Transpose(RotZ), Transpose(RotX), Transpose(RotZX)}

\* The engine's cell for box lengths l = (lx, ly, lz) and tilts t = (xy, xz, yz):
\* rows are the lattice vectors, lower triangular (the layout of
\* interactive_cells_getter).
LammpsCell(l, t) == <<<<l[1], 0, 0>>, <<t[1], l[2], 0>>, <<t[2], t[3], l[3]>>>>

NoTilt == <<0, 0, 0>>
Boxes == {<<2, 2, 2>>, <<2, 3, 4>>}
Tilts == {NoTilt, <<1, 0, 1>>}
CellRotations == {Identity, RotZ}

\* The cells a caller hands to the driver: every box, with and without tilt, in
\* the engine's orientation and rotated away from it.
Cells == {MatMul(LammpsCell(l, t), Transpose(Q)) : l \in Boxes, t \in Tilts, Q \in CellRotations}

IsLammpsCell(A) ==
  /\ A[1][2] = 0 /\ A[1][3] = 0 /\ A[2][3] = 0
  /\ A[1][1] > 0 /\ A[2][2] > 0 /\ A[3][3] > 0

\* UnfoldingPrism(cell): the rotation R with cell . R = the engine's cell, and
\* the six prism scalars of get_lammps_prism().
UnfoldingPrism(cell) ==
  LET Prism(R, A) ==
        [R |-> R, l |-> <<A[1][1], A[2][2], A[3][3]>>, t |-> <<A[2][1], A[3][1], A[3][2]>>]
      Unfold(R) == Prism(R, MatMul(cell, R))
  IN  Unfold(CHOOSE Q \in Rotations : IsLammpsCell(MatMul(cell, Q)))

\* UnfoldingPrism.unfold_cell: C = A . R^T
unfold_cell(p, cc) == MatMul(cc, Transpose(p.R))

\* Prism.is_skewed(): some tilt factor is not zero
PrismIsSkewed(p) == p.t # NoTilt

\* Atoms.is_skewed(): the volume differs from the product of the lengths of the
\* lattice vectors, i.e. the lattice vectors are not mutually orthogonal
StructureIsSkewed(s) ==
  LET G == MatMul(s.cell, Transpose(s.cell))
  IN  G[1][2] # 0 \/ G[1][3] # 0 \/ G[2][3] # 0

\* ------------------------------------------------------- unit conversion
\* The unit systems of the job (self.units); "metal" is pyiron's own length and
\* force unit, "nano" measures lengths in nm.
Units == {"metal", "nano"}

\* UnitConverter: the factor <<numerator, denominator>> that takes a value with
\* this label from the engine's units to pyiron's units (lengths: 1 nm = 10 A;
\* pressures: bar and attogram/(nm ns^2) to GPa; forces in nano units are
\* rounded to three digits).
UnitFactor(u, label) ==
  CASE label \in {"positions", "cells"} -> IF u = "metal" THEN <<1, 1>> ELSE <<10, 1>>
    [] label = "forces" -> IF u = "metal" THEN <<1, 1>> ELSE <<624, 1000000>>
    [] label = "pressure" -> IF u = "metal" THEN <<1, 10000>> ELSE <<1, 1000>>
    [] OTHER -> <<1, 1>>

\* uc.convert_array_to_pyiron_units(array, label) of an array of rows: the
\* value is num / den, elementwise
convert_array_to_pyiron_units(u, P, label) ==
  [num |-> ScaleRows(P, UnitFactor(u, label)[1]), den |-> UnitFactor(u, label)[2]]

\* A caller-side integer array as a converted value
Exact(P) == [num |-> P, den |-> 1]

\* Two converted values denote the same numbers
SameValue(a, b) == ScaleRows(a.num, b.den) = ScaleRows(b.num, a.den)

\* ------------------------------------------------------------ the engine
\* A command of the engine's language, as the driver formats it: the command
\* words and the numbers formatted into it (box lengths l, tilts t).
Cmd(name, l, t) == [name |-> name, l |-> l, t |-> t]
Plain(name) == Cmd(name, <<>>, <<>>)

\* The engine before its first command and after "clear"
\* (cell, p and frame remember what the driver pushed last: the caller's cell,
\* the caller's positions and the rotation they were pushed with; defined are
\* the fixes and computes it holds, callback whether fix_external has been
\* given its callback)
ClearedEngine ==
  [mode |-> "none", l |-> <<>>, t |-> <<>>, x |-> <<>>, cell |-> <<>>, p |-> <<>>,
   frame |-> <<>>, defined |-> {}, callback |-> FALSE]

\* command(text): what the engine's box becomes. Its mode is fixed by the region
\* that creates the box and by the change_box triclinic / ortho commands; a
\* change_box with "final" values sets the values it names.
EngineCommand(e, c) ==
  CASE c.name = "clear" -> ClearedEngine
    [] c.name = "region 1 prism" -> [e EXCEPT !.mode = "triclinic", !.l = c.l, !.t = c.t]
    [] c.name = "region 1 block" -> [e EXCEPT !.mode = "ortho", !.l = c.l, !.t = NoTilt]
    [] c.name = "change_box all triclinic" -> [e EXCEPT !.mode = "triclinic"]
    [] c.name = "change_box all ortho" -> [e EXCEPT !.mode = "ortho"]
    [] c.name = "change_box all x y z xy xz yz final" -> [e EXCEPT !.l = c.l, !.t = c.t]
    [] c.name = "change_box all x y z final" -> [e EXCEPT !.l = c.l]
    [] c.name = "fix___fix_external" -> [e EXCEPT !.defined = @ \cup {"fix_external"}]
    [] c.name = "compute st all stress/atom NULL" -> [e EXCEPT !.defined = @ \cup {"st"}]
    [] OTHER -> e

RECURSIVE EngineCommands(_, _)
EngineCommands(e, cs) ==
  IF cs = <<>> THEN e ELSE EngineCommands(EngineCommand(e, Head(cs)), Tail(cs))

\* ------------------------------------------------------------ the inputs
NoStructure == [cell |-> <<>>, positions |-> <<>>]
NoPrism == [R |-> <<>>, l |-> <<>>, t |-> <<>>]

\* Position arrays of n atoms, shape (n, 3)
PositionArrays(n) == {[k \in 1..n |-> <<k, 0, 2 * k>>], [k \in 1..n |-> <<1, k + 1, 0>>]}

Structures(n) == {[cell |-> c, positions |-> q] : c \in Cells, q \in PositionArrays(n)}

\* Force arrays a user function may return, shape (n, 3)
ForceVectors == {<<f, 0, f - 1>> : f \in 0..MaxForce}
ForceArrays(n) == [1..n -> ForceVectors]

\* Force arrays the engine may hold: after a run, and in the buffer it hands to
\* the callback
EngineForces(n) == {[k \in 1..n |-> <<f * k, f, k - f>>] : f \in 0..MaxForce}

\* The orders in which the engine may hold the atoms with IDs 1..n
AtomOrders(n) == {f \in [1..n -> 1..n] : \A i, j \in 1..n : f[i] = f[j] => i = j}

\* The per-atom stress record the engine computes for the atom with this ID
StressRecord(id) == [c \in 1..6 |-> 10 * id + c]

\* The thermo values pxx, pyy, pzz, pxy, pxz, pyz the engine may report
ThermoPressures == {<<1 + s, 2, 3, 4 + s, 5, 6 + 2 * s>> : s \in 0..MaxForce}

\* The control input (LammpsControl's defaults) and the potential's lines
ControlInput ==
  <<"units", "dimension", "boundary", "atom_style", "read_data", "include",
    "fix___ensemble", "thermo_style", "thermo", "run">>
PotentialLines == <<"pair_style", "pair_coeff">>
PotentialElements == <<"Al", "H">>

\* A row of the control dataset (Parameter, Value)
Row(key, value) == [Parameter |-> key, Value |-> value]

\* input.control after construction
DefaultControl ==
  [i \in 1..Len(ControlInput) |->
     Row(ControlInput[i],
         CASE ControlInput[i] = "run" -> <<0>>
           [] ControlInput[i] = "atom_style" -> <<"atomic">>
           [] OTHER -> <<>>)]

ControlKeys(ctl) == [i \in 1..Len(ctl) |-> ctl[i].Parameter]

HasKey(ctl, key) == \E i \in 1..Len(ctl) : ctl[i].Parameter = key

\* input.control[key]
ControlValue(ctl, key) == ctl[CHOOSE i \in 1..Len(ctl) : ctl[i].Parameter = key].Value

\* input.control[key] = value: the value of a key that is present is replaced
\* where it stands, a new key is appended
SetControl(ctl, key, value) ==
  IF HasKey(ctl, key)
  THEN [i \in 1..Len(ctl) |-> IF ctl[i].Parameter = key THEN Row(key, value) ELSE ctl[i]]
  ELSE Append(ctl, Row(key, value))

\* input.control.remove_keys(keys)
RemoveKeys(ctl, keys) == SelectSeq(ctl, LAMBDA r : r.Parameter \notin keys)

\* The command text of a row: " ".join of its cells
RowCommand(row) == Cmd(row.Parameter, row.Value, <<>>)

\* input.potential.files and the files that exist on disk (os.path.exists)
NoFiles == [files |-> <<>>, on_disk |-> {}]
Potentials ==
  {NoFiles,
   [files |-> <<"Al.eam", "H.eam">>, on_disk |-> {"Al.eam", "H.eam"}],
   [files |-> <<"Al.eam", "H.eam">>, on_disk |-> {"Al.eam"}]}

\* The calc_md calls: n_ionic_steps and n_print
MdRuns == [n_ionic_steps : 0..MaxSteps, n_print : 1..MaxPrint]

\* self.server.run_mode
RunModes == {"modal", "interactive", "interactive_non_modal"}

\* The functions a user registers with set_fix_external
UserFunctions == {"f", "g"}

\* -------------------------------------------------- the driver's handlers
\* Each handler maps the driver's and the engine's state to the commands it
\* issues (in order), the engine's state after them and the transform it leaves.

\* A variant of PushPositions that rotates the other way
PushPositionsTransposed(positions, R) ==
  IF Trace(R) # 3 THEN Flatten(RowsMat(positions, Transpose(R))) ELSE Flatten(positions)

\* interactive_positions_setter / interactive_structure_setter: the flat array
\* that is scattered for the caller's positions
PushPositions(positions, R) ==
  IF Trace(R) # 3 THEN Flatten(RowsMat(positions, R)) ELSE Flatten(positions)

interactive_positions_setter(positions, pr, e) ==
  [prism |-> pr,
   cmds |-> <<Plain("change_box all remap")>>,
   eng |-> [e EXCEPT !.x = PushPositions(positions, pr.R), !.p = positions, !.frame = pr.R]]

\* The arrays the vector getters return for the engine's flat array
PullVectors(u, flat, n, R, label) ==
  LET v == Reshape(flat, n)
      w == IF Trace(R) # 3 THEN RowsMat(v, Transpose(R)) ELSE v
  IN  convert_array_to_pyiron_units(u, w, label)

interactive_positions_getter(u, pr, e, n) == PullVectors(u, e.x, n, pr.R, "positions")

interactive_forces_getter(u, pr, ff, n) == PullVectors(u, ff, n, pr.R, "forces")

interactive_cells_getter(u, pr, e) ==
  convert_array_to_pyiron_units(u, unfold_cell(pr, LammpsCell(e.l, e.t)), "cells")

\* A variant of CellsSetterCommands that reverts to orthogonal before it zeroes
\* the tilt factors
CellsSetterCommandsOrthoFirst(pr, is_skewed, was_skewed) ==
  IF is_skewed
  THEN (IF ~was_skewed THEN <<Plain("change_box all triclinic")>> ELSE <<>>)
       \o <<Cmd("change_box all x y z xy xz yz final", pr.l, pr.t)>>
  ELSE IF was_skewed
  THEN <<Plain("change_box all ortho"),
         Cmd("change_box all x y z xy xz yz final", pr.l, NoTilt)>>
  ELSE <<Cmd("change_box all x y z final", pr.l, <<>>)>>

\* interactive_cells_setter: the commands chosen by the two skew flags
CellsSetterCommands(pr, is_skewed, was_skewed) ==
  IF is_skewed
  THEN (IF ~was_skewed THEN <<Plain("change_box all triclinic")>> ELSE <<>>)
       \o <<Cmd("change_box all x y z xy xz yz final", pr.l, pr.t)>>
  ELSE IF was_skewed
  THEN <<Cmd("change_box all x y z xy xz yz final", pr.l, NoTilt),
         Plain("change_box all ortho")>>
  ELSE <<Cmd("change_box all x y z final", pr.l, <<>>)>>

interactive_cells_setter(cell, cur, prev, e) ==
  LET Issue(pr, cs) ==
        [prism |-> pr, cmds |-> cs,
         eng |-> [EngineCommands(e, cs) EXCEPT !.cell = cell, !.p = <<>>, !.frame = <<>>]]
      WithPrism(pr) ==
        Issue(pr, CellsSetterCommands(pr, StructureIsSkewed(cur), StructureIsSkewed(prev)))
  IN  WithPrism(UnfoldingPrism(cell))

\* A variant that forwards every entry of the control input
InteractiveLammpsInputAll(keys) == [i \in 1..Len(keys) |-> Plain(keys[i])]

\* _interactive_lammps_input: the control entries that are forwarded
RECURSIVE InteractiveLammpsInput(_)
InteractiveLammpsInput(keys) ==
  IF keys = <<>> THEN <<>>
  ELSE (IF Head(keys) \in {"read_data", "units", "dimension", "boundary", "atom_style",
                           "atom_modify", "include", "run", "minimize"}
        THEN <<>> ELSE <<Plain(Head(keys))>>)
       \o InteractiveLammpsInput(Tail(keys))

\* _interactive_water_setter: the groups, the dummy pair style, the bonds and
\* the pair styles proper
InteractiveWaterSetter ==
  <<Plain("group Oatoms"), Plain("group H1atoms"), Plain("group H2atoms"),
    Plain("kspace_style none"), Plain("pair_style lj/cut"), Plain("pair_coeff * *"),
    Plain("create_bonds many"), Plain("create_bonds many"), Plain("pair_style"),
    Plain("pair_coeff"), Plain("kspace_style")>>

\* _interactive_set_potential, the loop over the lines of the potential: a line
\* is sent unless the atom style is "full" and it names a pair or kspace style,
\* and is sent (again) when the potential lists no file. The path of a listed
\* file replaces its name in the line, which leaves the command word as it is.
RECURSIVE InteractiveSetPotential(_, _, _)
InteractiveSetPotential(lines, style_full, no_files) ==
  IF lines = <<>> THEN <<>>
  ELSE (IF ~(style_full /\ Head(lines) \in {"pair_style", "pair_coeff", "kspace_style"})
        THEN <<Plain(Head(lines))>> ELSE <<>>)
       \o (IF no_files THEN <<Plain(Head(lines))>> ELSE <<>>)
       \o InteractiveSetPotential(Tail(lines), style_full, no_files)

\* A variant that looks each file up when its line comes
interactive_set_potential_lazy(pot, lines, style_full, water_bonds) ==
  IF \E i \in 1..Len(pot.files) : pot.files[i] \notin pot.on_disk
  THEN [raised |-> "ValueError",
        cmds |-> InteractiveSetPotential(SubSeq(lines, 1, 1), style_full, FALSE)]
  ELSE [raised |-> "None",
        cmds |-> InteractiveSetPotential(lines, style_full, Len(pot.files) = 0)
                 \o (IF style_full /\ water_bonds THEN InteractiveWaterSetter ELSE <<>>)]

\* _interactive_set_potential: the files are looked up first, a missing one
\* raises ValueError
interactive_set_potential(pot, lines, style_full, water_bonds) ==
  IF \E i \in 1..Len(pot.files) : pot.files[i] \notin pot.on_disk
  THEN [raised |-> "ValueError", cmds |-> <<>>]
  ELSE [raised |-> "None",
        cmds |-> InteractiveSetPotential(lines, style_full, Len(pot.files) = 0)
                 \o (IF style_full /\ water_bonds THEN InteractiveWaterSetter ELSE <<>>)]

\* interactive_structure_setter: the region command for the new cell
RegionCommand(pr) ==
  IF PrismIsSkewed(pr) THEN Cmd("region 1 prism", pr.l, pr.t)
  ELSE Cmd("region 1 block", pr.l, <<>>)

\* inp is the job's input: its control dataset, its potential files and the
\* interactive_water_bonds flag. The library's create_atoms call stands in its
\* place among the commands.
interactive_structure_setter(structure, e, inp) ==
  LET Issue(pr, cs, raised) ==
        [prism |-> pr,
         cmds |-> cs,
         eng |-> [EngineCommands(e, cs) EXCEPT
                    !.x = PushPositions(structure.positions, pr.R),
                    !.cell = structure.cell, !.p = structure.positions, !.frame = pr.R],
         raised |-> raised]
      WithPotential(pr, pot) ==
        Issue(pr,
              <<Plain("clear"), Plain("units"), Plain("dimension"), Plain("boundary"),
                Plain("atom_style"), Plain("atom_modify map array"), RegionCommand(pr),
                Plain("create_box")>>
              \o [i \in 1..Len(PotentialElements) |-> Cmd("mass", <<i>>, <<>>)]
              \o <<Plain("create_atoms"), Plain("change_box all remap")>>
              \o InteractiveLammpsInput(ControlKeys(inp.control))
              \o pot.cmds,
              pot.raised)
      WithPrism(pr) ==
        WithPotential(pr,
                      interactive_set_potential(
                        inp.potential, PotentialLines,
                        ControlValue(inp.control, "atom_style") = <<"full">>,
                        inp.water_bonds))
  IN  WithPrism(UnfoldingPrism(structure.cell))

\* A variant of RotateTensor that rotates the other way
RotateTensorTransposed(R, T) == MatMul(MatMul(Transpose(R), T), R)

\* The rotation of a rank-2 tensor by interactive_stress_getter (the two einsum
\* calls)
RotateTensor(R, T) == MatMul(MatMul(R, T), Transpose(R))

\* A variant of ArgSort that returns the rank of every key
ArgSortRanks(keys) ==
  [i \in 1..Len(keys) |-> Cardinality({j \in 1..Len(keys) : keys[j] < keys[i]}) + 1]

\* np.argsort of distinct keys: position k holds the index of the k-th smallest
ArgSort(keys) ==
  [k \in 1..Len(keys) |->
     CHOOSE i \in 1..Len(keys) : Cardinality({j \in 1..Len(keys) : keys[j] < keys[i]}) = k - 1]

\* ss[:, ind].reshape(3, 3) of one 6-component record, ind = [0,3,4,3,1,5,4,5,2]
StressIndex == <<0, 3, 4, 3, 1, 5, 4, 5, 2>>
ExpandRecord(rec) == [i \in Dim |-> [j \in Dim |-> rec[StressIndex[3 * (i - 1) + j] + 1]]]

\* / constants.eV * constants.bar * constants.angstrom**3, to three digits
StressFactor == <<624, 1000000000>>

\* interactive_stress_getter: ids and ss are the engine's arrays in its own
\* (local) atom order
interactive_stress_getter(pr, ids, ss, n) ==
  LET id_lst == ArgSort([i \in 1..n |-> ids[i] - 1])
      sorted == [k \in 1..n |-> ss[id_lst[k]]]
      full == ScaleTensors([k \in 1..n |-> ExpandRecord(sorted[k])], StressFactor[1])
      rot == IF Trace(pr.R) # 3 THEN [k \in 1..n |-> RotateTensor(pr.R, full[k])] ELSE full
  IN  [num |-> rot, den |-> StressFactor[2]]

\* interactive_pressures_getter: th holds the thermo values pxx, pyy, pzz, pxy,
\* pxz, pyz
interactive_pressures_getter(u, pr, th) ==
  LET pp == <<<<th[1], th[4], th[5]>>, <<th[4], th[2], th[6]>>, <<th[5], th[6], th[3]>>>>
      rotation_matrix == Transpose(pr.R)
      rot == IF Trace(rotation_matrix) # 3
             THEN MatMul(MatMul(Transpose(rotation_matrix), pp), rotation_matrix)
             ELSE pp
  IN  convert_array_to_pyiron_units(u, rot, "pressure")

\* GenericInteractive.run_if_interactive: open the engine on the first run, then
\* push what changed since the previous run (cell, then positions)
\* (an exception of interactive_initialize_interface ends the run there)
GenericRunIfInteractive(cur, prev, pr, e, opened, inp) ==
  LET pv == IF prev = NoStructure THEN cur ELSE prev
      Synchronized(s0, s1, s2) ==
        [prism |-> s2.prism, cmds |-> s0.cmds \o s1.cmds \o s2.cmds, eng |-> s2.eng,
         cells_setter |-> [called |-> cur.cell # pv.cell,
                           is_skewed |-> StructureIsSkewed(cur),
                           was_skewed |-> StructureIsSkewed(pv),
                           cmds |-> s1.cmds],
         raised |-> "None"]
      Failed(s0) ==
        [prism |-> s0.prism, cmds |-> s0.cmds, eng |-> s0.eng,
         cells_setter |-> [called |-> FALSE,
                           is_skewed |-> StructureIsSkewed(cur),
                           was_skewed |-> StructureIsSkewed(pv),
                           cmds |-> <<>>],
         raised |-> s0.raised]
      interactive_positions_organizer(s0, s1) ==
        Synchronized(s0, s1,
                     IF cur.positions # pv.positions
                     THEN interactive_positions_setter(cur.positions, s1.prism, s1.eng)
                     ELSE [prism |-> s1.prism, cmds |-> <<>>, eng |-> s1.eng])
      interactive_cell_organizer(s0) ==
        IF s0.raised # "None" THEN Failed(s0)
        ELSE interactive_positions_organizer(s0,
                     IF cur.cell # pv.cell
                     THEN interactive_cells_setter(cur.cell, cur, pv, s0.eng)
                     ELSE [prism |-> s0.prism, cmds |-> <<>>, eng |-> s0.eng])
  IN  interactive_cell_organizer(
        IF opened THEN [prism |-> pr, cmds |-> <<>>, eng |-> e, raised |-> "None"]
        ELSE interactive_structure_setter(cur, e, inp))

\* ------------------------------------------------- the force callback
\* The arrays of the engine that _FixExternal.fix_external is handed live at
\* addresses: "lammps" is the engine's force buffer, "new" an array that an
\* assignment to the local name would create.
EngineBuffer == "lammps"

\* Forces are held as integers in units of 1/nlocal, so that np.mean is exact.
FixedPoint(F, n) == ScaleRows(F, n)

\* x as the engine passes it: row i is the position of the atom with ID tag[i]
AtomPosition(id) == <<id, 2 * id, 0>>

\* fext.fill(0)
Fill0(buf) == [i \in DOMAIN buf |-> <<0, 0, 0>>]

\* A variant of AddAt that ignores the order of the atoms (fext += forces)
AddInPlace(buf, tags, forces) ==
  [i \in DOMAIN buf |-> [c \in Dim |-> buf[i][c] + forces[i][c]]]

\* fext[tags] += forces: row tags[k] gains forces[k]
AddAt(buf, tags, forces) ==
  [i \in DOMAIN buf |->
     LET k == CHOOSE j \in DOMAIN tags : tags[j] = i
     IN  [c \in Dim |-> buf[i][c] + forces[k][c]]]

RECURSIVE SumTo(_, _, _)
SumTo(buf, c, i) == IF i = 0 THEN 0 ELSE buf[i][c] + SumTo(buf, c, i - 1)

\* The sum of column c of an (n, 3) array
ColumnSum(buf, c) == SumTo(buf, c, Len(buf))

\* A variant of Debias that takes the mean of every row (axis=1)
DebiasRows(buf) ==
  [i \in DOMAIN buf |->
     [c \in Dim |-> buf[i][c] - ((buf[i][1] + buf[i][2] + buf[i][3]) \div 3)]]

\* fext -= np.mean(fext, axis=0)
Debias(buf) ==
  [i \in DOMAIN buf |-> [c \in Dim |-> buf[i][c] - (ColumnSum(buf, c) \div Len(buf))]]

\* --------------------------------------------------------------- state
VARIABLES
  units,                    \* self.units
  lib,                      \* _interactive_library: "none" or "open"
  structure_current,        \* _structure_current
  structure_previous,       \* _structure_previous
  prism,                    \* _prism
  interactive_run_command,  \* _interactive_run_command
  interactive_cache,        \* the keys of interactive_cache
  eng,                      \* the engine behind _interactive_library
  cmds,                     \* the commands the last operation issued, in order
  call,                     \* the last operation: its name, inputs and result
  fx,                       \* one invocation of _FixExternal.fix_external
  run_mode,                 \* self.server.run_mode
  generic_input,            \* _generic_input: calc_mode, n_ionic_steps, n_print
  control,                  \* self.input.control, the rows of its dataset
  potential,                \* self.input.potential.files and the files on disk
  interactive_water_bonds,  \* _interactive_water_bonds
  user_fix_external,        \* _user_fix_external
  handles,                  \* every engine handle the job created, the last one
                            \* being _interactive_library while lib = "open"
  interactive_fetch_completed,  \* _interactive_fetch_completed
  buffered,                 \* interactive_cache holds collected steps
  output,                   \* the result store under "output"
  parser                    \* a SphinxLogParser

session == <<units, lib, structure_current, structure_previous, prism,
             interactive_run_command, interactive_cache, eng, cmds, call>>

job == <<run_mode, generic_input, control, potential, interactive_water_bonds,
         user_fix_external, handles, interactive_fetch_completed, buffered, output>>

vars == <<session, fx, job, parser>>

Call(op, arg, raw, ret) == [op |-> op, arg |-> arg, raw |-> raw, ret |-> ret]

\* What an operation of the life cycle did: the exception it raised and the
\* calls it made, in order
Event(name, cmd) == [name |-> name, cmd |-> cmd]
Did(name) == Event(name, Plain(""))
Outcome(raised, events) == [raised |-> raised, events |-> events]

NAtoms == Len(structure_current.positions)

\* The job's input as the structure setter reads it
JobInput(ctl) ==
  [control |-> ctl, potential |-> potential, water_bonds |-> interactive_water_bonds]

\* No callback is running
FixIdle ==
  [pc |-> "idle", self |-> [function |-> "function"], tag |-> <<>>, x |-> <<>>,
   heap |-> [a \in {EngineBuffer, "new"} |-> <<>>], fext |-> "none", tags |-> <<>>,
   received |-> <<>>, forces |-> <<>>]

\* _generic_input after construction
DefaultGenericInput == [calc_mode |-> "static", n_ionic_steps |-> 1, n_print |-> 1]

\* _user_fix_external = None
NoCallback == [function |-> "None", fix_external |-> [kind |-> "None", function |-> "None"]]

\* A wrapper whose attribute fix_external is never replaced
FixExternalWrapped(function, overload_internal_fix_external) ==
  [function |-> function,
   fix_external |-> [kind |-> "_FixExternal.fix_external", function |-> function]]

\* _FixExternal(function), and the callable its attribute fix_external names:
\* the method of this wrapper, or the user's function put in its place
FixExternal(function, overload_internal_fix_external) ==
  [function |-> function,
   fix_external |-> IF overload_internal_fix_external
                    THEN [kind |-> "function", function |-> function]
                    ELSE [kind |-> "_FixExternal.fix_external", function |-> function]]

\* An engine handle right after its creation
NewHandle == [closed |-> 0, callback |-> NoCallback.fix_external]

\* The groups "interactive" and "generic" of the result store: their nodes
EmptyGroup == [k \in {} |-> ""]
Group(keys, value) == [k \in keys |-> value]
NoOutput == [has_interactive |-> FALSE, interactive |-> EmptyGroup, generic |-> EmptyGroup]
Outputs ==
  {NoOutput,
   [has_interactive |-> FALSE, interactive |-> EmptyGroup,
    generic |-> Group({"energy_tot", "steps"}, "file")],
   [has_interactive |-> TRUE, interactive |-> EmptyGroup,
    generic |-> Group({"energy_tot"}, "file")],
   [has_interactive |-> TRUE, interactive |-> Group({"energy_tot"}, "earlier"),
    generic |-> Group({"energy_tot", "steps"}, "file")]}

\* h5[group/key] = value for every key of g
Merge(f, g) ==
  [k \in DOMAIN f \cup DOMAIN g |-> IF k \in DOMAIN g THEN g[k] ELSE f[k]]

\* interactive_flush(path="interactive"): the buffered steps become nodes
FlushedKeys == {"energy_tot", "positions"}
interactive_flush(out) ==
  [out EXCEPT !.has_interactive = TRUE,
              !.interactive = Merge(out.interactive, Group(FlushedKeys, "live"))]

\* A cached field of the parser: None, or the value computed on first use
Unset == [cached |-> FALSE, value |-> <<>>]
Cached(v) == [cached |-> TRUE, value |-> v]

\* No SphinxLogParser has been constructed
NoParser ==
  [constructed |-> FALSE, log_file |-> <<>>, _log_main |-> Unset, _counter |-> Unset,
   _n_atoms |-> Unset, _n_steps |-> Unset]

\* ------------------------------------------------- the log parser
\* A log is a text, held line by line. The lines a log is made of: one per
\* pattern the parser looks for (the block of k-points, from its header to
\* the blank line that ends it, counts as one).
Marker == "Enter Main Loop"
KPointBlock == "-ik-     -x-      -y-       -z-    |  -weight-    -nG-    -label-"
LogLines ==
  {Marker, "F(0)=-1.5", "eTot(0)=-1.4", "Atom: 0 {1,2,3}", "nu(0) = 0.5",
   "Species: Fe {", "Omega: 10", "| SCF calculation", "Convergence reached.",
   "Fermi energy: 1.5 eV", KPointBlock, "final eig [eV]: 1 2", "| Z=26"}

\* The logs read from a file
Logs == UNION {[1..n -> LogLines] : n \in 0..MaxLines}

\* re.findall(pattern, text, re.MULTILINE): the lines of text the pattern
\* matches, pattern being given by the lines it matches
FindAll(pattern, text) == SelectSeq(text, LAMBDA l : l \in pattern)

\* arr[from : to]
Slice(arr, from, to) ==
  IF from >= Len(arr) THEN <<>>
  ELSE SubSeq(arr, from + 1, IF to > Len(arr) THEN Len(arr) ELSE to)

\* splitter(arr, counter): arr cut at the places where counter is minimal
splitter(arr, counter) ==
  IF Len(arr) = 0 \/ Len(counter) = 0 THEN <<>>
  ELSE LET least == CHOOSE m \in {counter[i] : i \in 1..Len(counter)} :
                      \A i \in 1..Len(counter) : m <= counter[i]
           at(i) == counter[i] = least
           Loc(n) == CHOOSE i \in 1..Len(counter) :
                       at(i) /\ Cardinality({j \in 1..i : at(j)}) = n
           count == Cardinality({i \in 1..Len(counter) : at(i)})
       IN  [n \in 1..count |->
              Slice(arr, Loc(n) - 1,
                    IF n = count THEN Len(arr) ELSE Loc(n + 1) - 1)]

\* A check that looks at the first line only
check_enter_scf_first_line(log_file) ==
  IF log_file = <<>> \/ log_file[1] # Marker THEN "AssertionError" ELSE "None"

\* _check_enter_scf: the exception it raises
check_enter_scf(log_file) ==
  IF Len(FindAll({Marker}, log_file)) = 0 THEN "AssertionError" ELSE "None"

\* SphinxLogParser(log_file): the check, then the cached fields set to None
SphinxLogParser(log_file) ==
  IF check_enter_scf(log_file) # "None"
  THEN [raised |-> check_enter_scf(log_file), parser |-> NoParser]
  ELSE [raised |-> "None",
        parser |-> [constructed |-> TRUE, log_file |-> log_file, _log_main |-> Unset,
                    _counter |-> Unset, _n_atoms |-> Unset, _n_steps |-> Unset]]

\* log_main: the text after the first "Enter Main Loop" and the line break
\* that follows it
EnterMainLoop(log_file) ==
  CHOOSE i \in 1..Len(log_file) :
    log_file[i] = Marker /\ \A j \in 1..(i - 1) : log_file[j] # Marker
log_main(log_file) == SubSeq(log_file, EnterMainLoop(log_file) + 1, Len(log_file))

\* counter, n_atoms, n_steps: the values the properties compute
counter(log_file) ==
  [i \in 1..Len(FindAll({"F(0)=-1.5"}, log_main(log_file))) |-> 0]
n_atoms(log_file) ==
  Cardinality({l \in {"Species: Fe {"} : FindAll({l}, log_main(log_file)) # <<>>})
n_steps(log_file) == Len(FindAll({"| SCF calculation"}, log_file))

\* The properties a method reads fill their cached fields on first use
Properties(log_file) ==
  [_log_main |-> EnterMainLoop(log_file), _counter |-> counter(log_file),
   _n_atoms |-> n_atoms(log_file), _n_steps |-> n_steps(log_file)]
Read(p, fields) ==
  [f \in DOMAIN p |->
     IF f \in fields /\ ~p[f].cached THEN Cached(Properties(p.log_file)[f]) ELSE p[f]]

\* What a method gives: the exception it raises, the value it returns and the
\* parser with the fields it cached
Returns(value, p) == [raised |-> "None", value |-> value, parser |-> p]
Raises(exception, p) == [raised |-> exception, value |-> <<>>, parser |-> p]

\* A number of the log and the factor it is converted by
Number(n, factor) == [n |-> n, factor |-> factor]

\* _get_energy(pattern): the (counter, energy) pairs of log_main are
\* transposed and unpacked, which no match at all does not allow
get_energy(p, pattern) ==
  LET Unpack(matches) ==
        IF matches = <<>> THEN Raises("ValueError", Read(p, {"_log_main"}))
        ELSE Returns(splitter([i \in 1..Len(matches) |->
                                 Number(matches[i], "HARTREE_TO_EV")],
                              [i \in 1..Len(matches) |-> 0]),
                     Read(p, {"_log_main"}))
  IN  Unpack(FindAll(pattern, log_main(p.log_file)))

get_energy_free(p) == get_energy(p, {"F(0)=-1.5"})
get_energy_int(p) == get_energy(p, {"eTot(0)=-1.4"})

\* get_forces: [] without a match, else (n_steps, n_atoms, 3) with n_atoms the
\* largest index + 1
get_forces(p) ==
  Returns([i \in 1..Len(FindAll({"Atom: 0 {1,2,3}"}, p.log_file)) |->
             <<Number("{1,2,3}", "HARTREE_OVER_BOHR_TO_EV_OVER_ANGSTROM")>>], p)

\* get_magnetic_forces: the nu lines of log_main in rows of n_atoms, split by
\* the counter
get_magnetic_forces(p) ==
  LET Rows(nu, n) ==
        IF nu = <<>>
        THEN Returns(splitter(<<>>, counter(p.log_file)),
                     Read(p, {"_log_main", "_counter"}))
        ELSE IF n = 0 \/ Len(nu) % n # 0
        THEN Raises("ValueError", Read(p, {"_log_main", "_n_atoms"}))
        ELSE Returns(splitter([i \in 1..(Len(nu) \div n) |->
                                 [j \in 1..n |->
                                    Number(nu[(i - 1) * n + j], "HARTREE_TO_EV")]],
                              counter(p.log_file)),
                     Read(p, {"_log_main", "_n_atoms", "_counter"}))
  IN  Rows(FindAll({"nu(0) = 0.5"}, log_main(p.log_file)), n_atoms(p.log_file))

\* get_volume: the first Omega of the log (0 without one), n_steps times
get_volume(p) ==
  LET Volumes(omega) ==
        Returns([i \in 1..n_steps(p.log_file) |->
                   IF omega = <<>> THEN Number("0", "1")
                   ELSE Number(omega[1], "BOHR_TO_ANGSTROM**3")],
                Read(p, {"_n_steps"}))
  IN  Volumes(FindAll({"Omega: 10"}, p.log_file))

\* get_convergence: True per "Convergence reached." of log_main, filled up
\* with False to n_steps
get_convergence(p) ==
  LET Fill(items) ==
        Returns([i \in 1..(IF n_steps(p.log_file) > Len(items)
                           THEN n_steps(p.log_file) ELSE Len(items)) |->
                   i <= Len(items)],
                Read(p, {"_log_main", "_n_steps"}))
  IN  Fill(FindAll({"Convergence reached."}, log_main(p.log_file)))

\* get_fermi: the Fermi energies of log_main
get_fermi(p) ==
  Returns([i \in 1..Len(FindAll({"Fermi energy: 1.5 eV"}, log_main(p.log_file))) |->
             Number("1.5", "1")],
          Read(p, {"_log_main"}))

\* _log_k_points: the rows between the header of the k-points and the blank
\* line after them; without a header re.search gives None, which has no end()
log_k_points(log_file) ==
  IF FindAll({KPointBlock}, log_file) = <<>>
  THEN [raised |-> "AttributeError", rows |-> <<>>]
  ELSE [raised |-> "None", rows |-> <<"k1">>]

get_bands_k_weights(p) ==
  IF log_k_points(p.log_file).raised # "None"
  THEN Raises(log_k_points(p.log_file).raised, p)
  ELSE Returns([i \in 1..Len(log_k_points(p.log_file).rows) |-> Number("weight", "1")],
               p)

k_points(p) ==
  IF log_k_points(p.log_file).raised # "None"
  THEN Raises(log_k_points(p.log_file).raised, p)
  ELSE Returns([i \in 1..Len(log_k_points(p.log_file).rows) |-> Number("x y z", "1")],
               p)

\* _parse_band(term): the matches of log_main are loaded as rows of numbers
\* and reshaped to (-1, len(k_points), numbers per row); an array without
\* numbers cannot be reshaped to rows of no numbers
parse_band(p, term) ==
  LET Shaped(rows, k) ==
        IF k.raised # "None" THEN Raises(k.raised, Read(p, {"_log_main"}))
        ELSE IF rows = <<>> \/ Len(rows) % Len(k.value) # 0
        THEN Raises("ValueError", Read(p, {"_log_main"}))
        ELSE Returns([i \in 1..(Len(rows) \div Len(k.value)) |->
                        [j \in 1..Len(k.value) |->
                           Number(rows[(i - 1) * Len(k.value) + j], "1")]],
                     Read(p, {"_log_main"}))
  IN  Shaped(FindAll(term, log_main(p.log_file)), k_points(p))

get_band_energy(p) == parse_band(p, {"final eig [eV]: 1 2"})
get_occupancy(p) == parse_band(p, {"final focc: 1 1"})

\* The words of a line (str.split); the block of k-points ends in a blank line
Words(line) ==
  CASE line = Marker -> <<"Enter", "Main", "Loop">>
    [] line = "F(0)=-1.5" -> <<"F(0)=-1.5">>
    [] line = "eTot(0)=-1.4" -> <<"eTot(0)=-1.4">>
    [] line = "Atom: 0 {1,2,3}" -> <<"Atom:", "0", "{1,2,3}">>
    [] line = "nu(0) = 0.5" -> <<"nu(0)", "=", "0.5">>
    [] line = "Species: Fe {" -> <<"Species:", "Fe", "{">>
    [] line = "Omega: 10" -> <<"Omega:", "10">>
    [] line = "| SCF calculation" -> <<"|", "SCF", "calculation">>
    [] line = "Convergence reached." -> <<"Convergence", "reached.">>
    [] line = "Fermi energy: 1.5 eV" -> <<"Fermi", "energy:", "1.5", "eV">>
    [] line = KPointBlock -> <<>>
    [] line = "final eig [eV]: 1 2" -> <<"final", "eig", "[eV]:", "1", "2">>
    [] line = "| Z=26" -> <<"|", "Z=26">>

\* get_n_valence: for every line "| Z=..." the second word of the line before
\* it (log[ii - 1], the last line for the first), mapped to Z
get_n_valence(p) ==
  LET before(i) == p.log_file[IF i = 1 THEN Len(p.log_file) ELSE i - 1]
      found == {i \in 1..Len(p.log_file) : p.log_file[i] = "| Z=26"}
  IN  IF \E i \in found : Len(Words(before(i))) < 2
      THEN Raises("IndexError", p)
      ELSE Returns([w \in {Words(before(i))[2] : i \in found} |-> 26], p)

\* The job after construction (in pyiron's own units)
Init ==
  /\ units = "metal"
  /\ lib = "none"
  /\ structure_current = NoStructure
  /\ structure_previous = NoStructure
  /\ prism = NoPrism
  /\ interactive_run_command = Row("None", <<>>)
  /\ interactive_cache = {}
  /\ eng = ClearedEngine
  /\ cmds = <<>>
  /\ call = Call("__init__", <<>>, <<>>, <<>>)
  /\ fx = FixIdle
  /\ run_mode = "interactive"
  /\ generic_input = DefaultGenericInput
  /\ control = DefaultControl
  /\ potential = NoFiles
  /\ interactive_water_bonds = FALSE
  /\ user_fix_external = NoCallback
  /\ handles = <<>>
  /\ interactive_fetch_completed = TRUE
  /\ buffered = FALSE
  /\ output = NoOutput
  /\ parser = NoParser

\* job.structure = structure (the property setter)
SetStructure ==
  \E n \in 1..MaxAtoms : \E s \in Structures(n) :
    /\ structure_current # NoStructure => n = NAtoms
    /\ prism' = UnfoldingPrism(s.cell)
    /\ structure_current' = s
    /\ cmds' = <<>>
    /\ call' = Call("structure", <<>>, <<>>, <<>>)
    /\ UNCHANGED <<units, lib, structure_previous, interactive_run_command,
                   interactive_cache, eng, fx, job, parser>>

\* The engine handle after GenericInteractive.run_if_interactive: it is created
\* by interactive_initialize_interface when the session is not activated
Activated == IF lib = "open" THEN handles ELSE Append(handles, NewHandle)

\* The events of n iterations: interactive_execute, then interactive_collect
ExecuteCollect(n, rc) ==
  [i \in 1..(2 * n) |->
     IF i % 2 = 1 THEN Event("interactive_execute", RowCommand(rc))
     ELSE Did("interactive_collect")]

\* run_if_interactive: in md / vcsgc mode the run entry is set to n_print, the
\* parent synchronises, the run command is reset, the callback is handed to
\* the engine and int(n_ionic_steps / n_print) steps are executed and
\* collected; in any other mode the parent synchronises and one step is
\* executed and collected
run_if_interactive ==
  /\ run_mode = "interactive"
  /\ structure_current # NoStructure
  /\ lib = "none" => Len(handles) < MaxHandles
  /\ LET md == generic_input.calc_mode \in {"md", "vcsgc"}
         Run(ctl, r, ok) ==
           LET initialized == IF lib = "open" THEN interactive_run_command
                              ELSE ctl[Len(ctl)]
               rc == IF md /\ ok THEN ctl[Len(ctl)] ELSE initialized
               iteration_max == IF ~ok THEN 0
                                ELSE IF md
                                THEN generic_input.n_ionic_steps \div generic_input.n_print
                                ELSE 1
               hand == ok /\ md /\ user_fix_external # NoCallback
           IN  /\ control' = ctl
               /\ lib' = "open"
               /\ handles' = IF hand
                             THEN [Activated EXCEPT
                                     ![Len(Activated)].callback =
                                       user_fix_external.fix_external]
                             ELSE Activated
               /\ interactive_run_command' = rc
               /\ prism' = r.prism
               /\ eng' = IF hand THEN [r.eng EXCEPT !.callback = TRUE] ELSE r.eng
               /\ cmds' = r.cmds \o [i \in 1..iteration_max |-> RowCommand(rc)]
               /\ structure_previous' = IF ok THEN structure_current
                                        ELSE structure_previous
               /\ buffered' = (buffered \/ iteration_max > 0)
               /\ call' = Call("run_if_interactive", r.cells_setter, <<>>,
                               Outcome(r.raised,
                                       (IF hand THEN <<Did("set_fix_external_callback")>>
                                        ELSE <<>>)
                                       \o ExecuteCollect(iteration_max, rc)))
         Synchronise(ctl) ==
           \E r \in {GenericRunIfInteractive(structure_current, structure_previous,
                                              prism, eng, lib = "open", JobInput(ctl))} :
             Run(ctl, r, r.raised = "None")
     IN  Synchronise(IF md THEN SetControl(control, "run", <<generic_input.n_print>>)
                     ELSE control)
  /\ UNCHANGED <<units, structure_current, interactive_cache, fx, run_mode,
                 generic_input, potential, interactive_water_bonds, user_fix_external,
                 interactive_fetch_completed, output, parser>>

\* The tail of calc_minimize and calc_md: on an activated interactive session
\* the structure is set anew
ResetStructure(op, ctl) ==
  IF lib = "open" /\ run_mode \in {"interactive", "interactive_non_modal"}
  THEN \E r \in {interactive_structure_setter(structure_current, eng, JobInput(ctl))} :
         /\ prism' = r.prism
         /\ eng' = r.eng
         /\ cmds' = r.cmds
         /\ call' = Call(op, structure_current.positions, <<>>, Outcome(r.raised, <<>>))
  ELSE /\ cmds' = <<>>
       /\ call' = Call(op, <<>>, <<>>, Outcome("None", <<>>))
       /\ UNCHANGED <<prism, eng>>

\* calc_minimize: LammpsControl replaces the run entry by a minimize entry
calc_minimize ==
  /\ generic_input' = [generic_input EXCEPT !.calc_mode = "minimize"]
  /\ control' = SetControl(RemoveKeys(control, {"run"}), "minimize", <<>>)
  /\ ResetStructure("calc_minimize", control')
  /\ UNCHANGED <<units, lib, structure_current, structure_previous,
                 interactive_run_command, interactive_cache, fx, run_mode, potential,
                 interactive_water_bonds, user_fix_external, handles,
                 interactive_fetch_completed, buffered, output, parser>>

\* calc_md(n_ionic_steps, n_print): LammpsControl replaces the minimize entry
\* by a run entry
calc_md ==
  /\ \E a \in MdRuns :
       /\ generic_input' = [calc_mode |-> "md", n_ionic_steps |-> a.n_ionic_steps,
                            n_print |-> a.n_print]
       /\ control' = SetControl(RemoveKeys(control, {"minimize"}), "run",
                                <<a.n_ionic_steps>>)
  /\ ResetStructure("calc_md", control')
  /\ UNCHANGED <<units, lib, structure_current, structure_previous,
                 interactive_run_command, interactive_cache, fx, run_mode, potential,
                 interactive_water_bonds, user_fix_external, handles,
                 interactive_fetch_completed, buffered, output, parser>>

PositionsSetter ==
  /\ lib = "open"
  /\ \E q \in PositionArrays(NAtoms) :
       \E r \in {interactive_positions_setter(q, prism, eng)} :
           /\ eng' = r.eng
           /\ cmds' = r.cmds
           /\ call' = Call("interactive_positions_setter", q, <<>>, <<>>)
  /\ UNCHANGED <<units, lib, structure_current, structure_previous, prism,
                 interactive_run_command, interactive_cache, fx, job, parser>>

\* A getter that issues no command: only its result is recorded
Getter(op, raw, ret) ==
  /\ lib = "open"
  /\ cmds' = <<>>
  /\ call' = Call(op, <<>>, raw, ret)
  /\ UNCHANGED <<units, lib, structure_current, structure_previous, prism,
                 interactive_run_command, interactive_cache, eng, fx, job, parser>>

PositionsGetter ==
  Getter("interactive_positions_getter", eng.x,
         interactive_positions_getter(units, prism, eng, NAtoms))

ForcesGetter ==
  \E ff \in EngineForces(NAtoms) :
    Getter("interactive_forces_getter", Flatten(ff),
           interactive_forces_getter(units, prism, Flatten(ff), NAtoms))

CellsGetter ==
  Getter("interactive_cells_getter", LammpsCell(eng.l, eng.t),
         interactive_cells_getter(units, prism, eng))

PressuresGetter ==
  \E th \in ThermoPressures :
    Getter("interactive_pressures_getter", th,
           interactive_pressures_getter(units, prism, th))

\* The getters of one thermo value (get_thermo of vol, pe, etotal, step, temp)
\* with the label of its unit
ThermoGetter ==
  \E g \in {<<"interactive_volume_getter", "volume">>,
            <<"interactive_energy_pot_getter", "energy_pot">>,
            <<"interactive_energy_tot_getter", "energy_tot">>,
            <<"interactive_steps_getter", "steps">>,
            <<"interactive_temperatures_getter", "temperature">>} :
    \E v \in {1, 2} :
      Getter(g[1], v, convert_array_to_pyiron_units(units, <<<<v>>>>, g[2]))

\* interactive_indices_getter: the engine's types 1, 2, ... of the atoms become
\* the indices 0, 1, ... of a structure whose species are the potential's
\* elements in their order
IndicesGetter ==
  \E types \in {[k \in 1..NAtoms |-> 1], [k \in 1..NAtoms |-> (k % 2) + 1]} :
    Getter("interactive_indices_getter", types,
           convert_array_to_pyiron_units(units, <<[k \in 1..NAtoms |-> types[k] - 1]>>,
                                         "indices"))

\* A stress getter that defines its compute on every call
StressGetterUnguarded ==
  /\ lib = "open"
  /\ \E ids \in AtomOrders(NAtoms) :
       LET ss == [i \in 1..NAtoms |-> StressRecord(ids[i])]
       IN  call' = Call("interactive_stress_getter", <<>>, [ids |-> ids, ss |-> ss],
                        interactive_stress_getter(prism, ids, ss, NAtoms))
  /\ cmds' = <<Plain("compute st all stress/atom NULL"), Plain("run 0")>>
  /\ eng' = EngineCommands(eng, cmds')
  /\ interactive_cache' = interactive_cache \cup {"stress"}
  /\ UNCHANGED <<units, lib, structure_current, structure_previous, prism,
                 interactive_run_command, fx, job, parser>>

\* interactive_stress_getter: the compute is defined on the first call only
StressGetter ==
  /\ lib = "open"
  /\ \E ids \in AtomOrders(NAtoms) :
       LET ss == [i \in 1..NAtoms |-> StressRecord(ids[i])]
       IN  call' = Call("interactive_stress_getter", <<>>, [ids |-> ids, ss |-> ss],
                        interactive_stress_getter(prism, ids, ss, NAtoms))
  /\ cmds' = IF "stress" \in interactive_cache THEN <<>>
             ELSE <<Plain("compute st all stress/atom NULL"), Plain("run 0")>>
  /\ eng' = EngineCommands(eng, cmds')
  /\ interactive_cache' = interactive_cache \cup {"stress"}
  /\ UNCHANGED <<units, lib, structure_current, structure_previous, prism,
                 interactive_run_command, fx, job, parser>>

\* The session: structures are assigned, calculations set up and run
Next ==
  \/ SetStructure
  \/ run_if_interactive
  \/ calc_minimize

Spec == Init /\ [][Next]_vars

\* A live session after its first run, for every unit system and structure
InitIO ==
  /\ units \in Units
  /\ run_mode = "interactive"
  /\ generic_input = DefaultGenericInput
  /\ control = DefaultControl
  /\ potential = NoFiles
  /\ interactive_water_bonds = FALSE
  /\ user_fix_external = NoCallback
  /\ handles = <<NewHandle>>
  /\ interactive_fetch_completed = TRUE
  /\ buffered = TRUE
  /\ output = NoOutput
  /\ parser = NoParser
  /\ \E n \in 1..MaxAtoms : \E s \in Structures(n) :
       \E r \in {GenericRunIfInteractive(s, NoStructure, UnfoldingPrism(s.cell),
                                          ClearedEngine, FALSE, JobInput(control))} :
           /\ structure_current = s
           /\ structure_previous = s
           /\ prism = r.prism
           /\ eng = r.eng
           /\ cmds = r.cmds \o <<RowCommand(control[Len(control)])>>
           /\ call = Call("run_if_interactive", r.cells_setter, <<>>,
                          Outcome("None", ExecuteCollect(1, control[Len(control)])))
  /\ lib = "open"
  /\ interactive_run_command = control[Len(control)]
  /\ interactive_cache = {}
  /\ fx = FixIdle

\* The getters and setters of a live session with a fixed cell
NextIO ==
  \/ calc_minimize
  \/ PositionsSetter
  \/ PositionsGetter
  \/ ForcesGetter
  \/ CellsGetter
  \/ PressuresGetter
  \/ StressGetter

SpecIO == InitIO /\ [][NextIO]_vars

\* A live session of at most two atoms after its first run: every getter is
\* called, and calculations are set up
InitGet == InitIO /\ NAtoms <= 2

NextGet ==
  \/ calc_minimize
  \/ PositionsGetter
  \/ ForcesGetter
  \/ CellsGetter
  \/ PressuresGetter
  \/ ThermoGetter
  \/ IndicesGetter
  \/ StressGetter

SpecGet == InitGet /\ [][NextGet]_vars

\* ------------------------------------------------- the life cycle
\* A registration that does not look at the run mode
set_fix_external_unchecked ==
  /\ \E function \in UserFunctions : \E overload \in BOOLEAN :
       /\ user_fix_external' = FixExternal(function, overload)
       /\ control' = SetControl(control, "fix___fix_external", <<1, 1>>)
       /\ call' = Call("set_fix_external",
                       [function |-> function, overload |-> overload], <<>>,
                       Outcome("None", <<>>))
  /\ cmds' = <<>>
  /\ UNCHANGED <<units, lib, structure_current, structure_previous, prism,
                 interactive_run_command, interactive_cache, eng, fx, run_mode,
                 generic_input, potential, interactive_water_bonds, handles,
                 interactive_fetch_completed, buffered, output, parser>>

\* set_fix_external(function, n_call, n_apply, overload_internal_fix_external)
set_fix_external ==
  /\ \E function \in UserFunctions : \E overload \in BOOLEAN :
       IF run_mode # "interactive"
       THEN /\ call' = Call("set_fix_external",
                            [function |-> function, overload |-> overload], <<>>,
                            Outcome("AssertionError", <<>>))
            /\ UNCHANGED <<user_fix_external, control>>
       ELSE /\ user_fix_external' = FixExternal(function, overload)
            /\ control' = SetControl(control, "fix___fix_external", <<1, 1>>)
            /\ call' = Call("set_fix_external",
                            [function |-> function, overload |-> overload], <<>>,
                            Outcome("None", <<>>))
  /\ cmds' = <<>>
  /\ UNCHANGED <<units, lib, structure_current, structure_previous, prism,
                 interactive_run_command, interactive_cache, eng, fx, run_mode,
                 generic_input, potential, interactive_water_bonds, handles,
                 interactive_fetch_completed, buffered, output, parser>>

\* A non-modal run that does not fetch the step that is pending
run_if_interactive_non_modal_unfetched ==
  /\ run_mode = "interactive_non_modal"
  /\ structure_current # NoStructure
  /\ lib = "none" => (Len(handles) < MaxHandles /\ interactive_fetch_completed)
  /\ \E r \in {GenericRunIfInteractive(structure_current, structure_previous, prism,
                                        eng, lib = "open", JobInput(control))} :
       LET ok == r.raised = "None"
           rc == IF lib = "open" THEN interactive_run_command
                 ELSE control[Len(control)]
       IN  /\ lib' = "open"
           /\ handles' = Activated
           /\ interactive_run_command' = rc
           /\ prism' = r.prism
           /\ eng' = r.eng
           /\ cmds' = r.cmds \o (IF ok THEN <<RowCommand(rc)>> ELSE <<>>)
           /\ structure_previous' = IF ok THEN structure_current
                                    ELSE structure_previous
           /\ interactive_fetch_completed' = ~ok
           /\ buffered' = buffered
           /\ call' = Call("run_if_interactive_non_modal", r.cells_setter, <<>>,
                           Outcome(r.raised,
                                   IF ok THEN <<Event("interactive_execute",
                                                      RowCommand(rc))>>
                                   ELSE <<>>))
  /\ UNCHANGED <<units, structure_current, interactive_cache, fx, run_mode,
                 generic_input, control, potential, interactive_water_bonds,
                 user_fix_external, output, parser>>

\* run_if_interactive_non_modal: a pending fetch is effectuated, the parent
\* synchronises, one step is executed and left to be fetched.
\* (interactive_collect marks the fetch completed in non-modal mode.)
run_if_interactive_non_modal ==
  /\ run_mode = "interactive_non_modal"
  /\ structure_current # NoStructure
  /\ lib = "none" => (Len(handles) < MaxHandles /\ interactive_fetch_completed)
  /\ \E r \in {GenericRunIfInteractive(structure_current, structure_previous, prism,
                                        eng, lib = "open", JobInput(control))} :
       LET ok == r.raised = "None"
           rc == IF lib = "open" THEN interactive_run_command
                 ELSE control[Len(control)]
           pending == ~interactive_fetch_completed
       IN  /\ lib' = "open"
           /\ handles' = Activated
           /\ interactive_run_command' = rc
           /\ prism' = r.prism
           /\ eng' = r.eng
           /\ cmds' = r.cmds \o (IF ok THEN <<RowCommand(rc)>> ELSE <<>>)
           /\ structure_previous' = IF ok THEN structure_current
                                    ELSE structure_previous
           /\ interactive_fetch_completed' = ~ok
           /\ buffered' = (buffered \/ pending)
           /\ call' = Call("run_if_interactive_non_modal", r.cells_setter, <<>>,
                           Outcome(r.raised,
                                   (IF pending
                                    THEN <<Did("print"), Did("interactive_collect")>>
                                    ELSE <<>>)
                                   \o (IF ok
                                       THEN <<Event("interactive_execute",
                                                    RowCommand(rc))>>
                                       ELSE <<>>)))
  /\ UNCHANGED <<units, structure_current, interactive_cache, fx, run_mode,
                 generic_input, control, potential, interactive_water_bonds,
                 user_fix_external, output, parser>>

\* A fetch after which the step still counts as pending
interactive_fetch_unmarked ==
  /\ LET lenient == interactive_fetch_completed /\ run_mode = "interactive_non_modal"
     IN  /\ lenient \/ lib = "open"
         /\ buffered' = (buffered \/ ~lenient)
         /\ call' = Call("interactive_fetch", interactive_fetch_completed, <<>>,
                         Outcome("None",
                                 IF lenient THEN <<Did("print")>>
                                 ELSE <<Did("interactive_collect")>>))
  /\ cmds' = <<>>
  /\ UNCHANGED <<units, lib, structure_current, structure_previous, prism,
                 interactive_run_command, interactive_cache, eng, fx, run_mode,
                 generic_input, control, potential, interactive_water_bonds,
                 user_fix_external, handles, interactive_fetch_completed, output,
                 parser>>

\* A fetch that collects whether or not a step is pending
interactive_fetch_always ==
  /\ lib = "open"
  /\ interactive_fetch_completed' =
       IF run_mode = "interactive_non_modal" THEN TRUE ELSE interactive_fetch_completed
  /\ buffered' = TRUE
  /\ call' = Call("interactive_fetch", interactive_fetch_completed, <<>>,
                  Outcome("None", <<Did("interactive_collect")>>))
  /\ cmds' = <<>>
  /\ UNCHANGED <<units, lib, structure_current, structure_previous, prism,
                 interactive_run_command, interactive_cache, eng, fx, run_mode,
                 generic_input, control, potential, interactive_water_bonds,
                 user_fix_external, handles, output, parser>>

\* interactive_fetch: a warning when nothing is pending in non-modal mode, else
\* interactive_collect (on a live session)
interactive_fetch ==
  /\ LET lenient == interactive_fetch_completed /\ run_mode = "interactive_non_modal"
     IN  /\ lenient \/ lib = "open"
         /\ interactive_fetch_completed' =
              IF ~lenient /\ run_mode = "interactive_non_modal" THEN TRUE
              ELSE interactive_fetch_completed
         /\ buffered' = (buffered \/ ~lenient)
         /\ call' = Call("interactive_fetch", interactive_fetch_completed, <<>>,
                         Outcome("None",
                                 IF lenient THEN <<Did("print")>>
                                 ELSE <<Did("interactive_collect")>>))
  /\ cmds' = <<>>
  /\ UNCHANGED <<units, lib, structure_current, structure_previous, prism,
                 interactive_run_command, interactive_cache, eng, fx, run_mode,
                 generic_input, control, potential, interactive_water_bonds,
                 user_fix_external, handles, output, parser>>

\* An execute that sends the buffered run command wherever the handle is
interactive_execute_unguarded ==
  /\ cmds' = <<RowCommand(interactive_run_command)>>
  /\ call' = Call("interactive_execute", <<>>, <<>>,
                  Outcome("None", <<Event("interactive_execute",
                                          RowCommand(interactive_run_command))>>))
  /\ UNCHANGED <<units, lib, structure_current, structure_previous, prism,
                 interactive_run_command, interactive_cache, eng, fx, job, parser>>

\* interactive_execute, called on its own: the buffered run command goes to the
\* engine handle; before the first run the command is None and the debug
\* message cannot be built, after a close the handle is None
interactive_execute ==
  /\ IF lib = "open"
     THEN /\ cmds' = <<RowCommand(interactive_run_command)>>
          /\ call' = Call("interactive_execute", <<>>, <<>>,
                          Outcome("None", <<Event("interactive_execute",
                                                  RowCommand(interactive_run_command))>>))
     ELSE /\ cmds' = <<>>
          /\ call' = Call("interactive_execute", <<>>, <<>>,
                          Outcome(IF interactive_run_command = Row("None", <<>>)
                                  THEN "TypeError" ELSE "AttributeError", <<>>))
  /\ UNCHANGED <<units, lib, structure_current, structure_previous, prism,
                 interactive_run_command, interactive_cache, eng, fx, job, parser>>

\* A copy that takes "generic" to be "interactive"
CopyInteractiveOnly(out) ==
  IF out.has_interactive
  THEN [out EXCEPT !.generic = out.interactive]
  ELSE out

\* The copy at the end of interactive_close: every node of "interactive" is
\* written under "generic"
CopyInteractive(out) ==
  IF out.has_interactive
  THEN [out EXCEPT !.generic = Merge(out.generic, out.interactive)]
  ELSE out

\* A close that does not ask whether the session is activated
interactive_close_unguarded ==
  /\ handles # <<>>
  /\ \E flushed \in {IF buffered THEN interactive_flush(output) ELSE output} :
       /\ handles' = [handles EXCEPT ![Len(handles)].closed = @ + 1]
       /\ lib' = "none"
       /\ buffered' = FALSE
       /\ output' = CopyInteractive(flushed)
       /\ call' = Call("interactive_close", output, flushed,
                       Outcome("None",
                               <<Did("library.close"), Did("super.interactive_close"),
                                 Did("h5.open")>>))
  /\ cmds' = <<>>
  /\ UNCHANGED <<units, structure_current, structure_previous, prism,
                 interactive_run_command, interactive_cache, eng, fx, run_mode,
                 generic_input, control, potential, interactive_water_bonds,
                 user_fix_external, interactive_fetch_completed, parser>>

\* interactive_close: on an activated session the handle is closed, the parent
\* flushes the buffered steps and releases the handle, and the nodes of
\* "interactive" are copied
interactive_close ==
  /\ IF lib = "open"
     THEN \E flushed \in {IF buffered THEN interactive_flush(output) ELSE output} :
            /\ handles' = [handles EXCEPT ![Len(handles)].closed = @ + 1]
            /\ lib' = "none"
            /\ buffered' = FALSE
            /\ output' = CopyInteractive(flushed)
            /\ call' = Call("interactive_close", output, flushed,
                            Outcome("None",
                                    <<Did("library.close"), Did("super.interactive_close"),
                                      Did("h5.open")>>))
     ELSE /\ call' = Call("interactive_close", output, output, Outcome("None", <<>>))
          /\ UNCHANGED <<handles, lib, buffered, output>>
  /\ cmds' = <<>>
  /\ UNCHANGED <<units, structure_current, structure_previous, prism,
                 interactive_run_command, interactive_cache, eng, fx, run_mode,
                 generic_input, control, potential, interactive_water_bonds,
                 user_fix_external, interactive_fetch_completed, parser>>

\* A job with a structure, in every run mode
RunStructure ==
  [cell |-> MatMul(LammpsCell(<<2, 3, 4>>, <<1, 0, 1>>), Transpose(RotZ)),
   positions |-> <<<<1, 0, 2>>>>]

InitRun ==
  /\ units = "metal"
  /\ lib = "none"
  /\ structure_current = RunStructure
  /\ structure_previous = NoStructure
  /\ prism = UnfoldingPrism(RunStructure.cell)
  /\ interactive_run_command = Row("None", <<>>)
  /\ interactive_cache = {}
  /\ eng = ClearedEngine
  /\ cmds = <<>>
  /\ call = Call("structure", <<>>, <<>>, Outcome("None", <<>>))
  /\ fx = FixIdle
  /\ run_mode \in RunModes
  /\ generic_input = DefaultGenericInput
  /\ control = DefaultControl
  /\ potential = NoFiles
  /\ interactive_water_bonds = FALSE
  /\ user_fix_external = NoCallback
  /\ handles = <<>>
  /\ interactive_fetch_completed = TRUE
  /\ buffered = FALSE
  /\ output = NoOutput
  /\ parser = NoParser

\* Calculations are set up, run, stepped and closed
NextRun ==
  \/ calc_md
  \/ calc_minimize
  \/ run_if_interactive
  \/ interactive_execute
  \/ interactive_close

SpecRun == InitRun /\ [][NextRun]_vars

\* Callbacks are registered, calculations set up and run
NextRegister ==
  \/ set_fix_external
  \/ calc_md
  \/ calc_minimize
  \/ run_if_interactive

SpecRegister == InitRun /\ [][NextRegister]_vars

\* A job with a structure, in every run mode and over every result store
InitClose ==
  /\ units = "metal"
  /\ lib = "none"
  /\ structure_current = RunStructure
  /\ structure_previous = NoStructure
  /\ prism = UnfoldingPrism(RunStructure.cell)
  /\ interactive_run_command = Row("None", <<>>)
  /\ interactive_cache = {}
  /\ eng = ClearedEngine
  /\ cmds = <<>>
  /\ call = Call("structure", <<>>, <<>>, Outcome("None", <<>>))
  /\ fx = FixIdle
  /\ run_mode \in RunModes
  /\ generic_input = DefaultGenericInput
  /\ control = DefaultControl
  /\ potential = NoFiles
  /\ interactive_water_bonds = FALSE
  /\ user_fix_external = NoCallback
  /\ handles = <<>>
  /\ interactive_fetch_completed = TRUE
  /\ buffered = FALSE
  /\ output \in Outputs
  /\ parser = NoParser

\* Steps are run, fetched and the session closed
NextClose ==
  \/ run_if_interactive
  \/ run_if_interactive_non_modal
  \/ interactive_fetch
  \/ interactive_close

SpecClose == InitClose /\ [][NextClose]_vars

\* A job with a structure (in a skewed or a rectangular cell) in interactive
\* mode, over every potential, atom style and water-bond flag
InitPotential ==
  /\ units = "metal"
  /\ lib = "none"
  /\ structure_current \in
       {RunStructure, [RunStructure EXCEPT !.cell = LammpsCell(<<2, 3, 4>>, NoTilt)]}
  /\ structure_previous = NoStructure
  /\ prism = UnfoldingPrism(structure_current.cell)
  /\ interactive_run_command = Row("None", <<>>)
  /\ interactive_cache = {}
  /\ eng = ClearedEngine
  /\ cmds = <<>>
  /\ call = Call("structure", <<>>, <<>>, Outcome("None", <<>>))
  /\ fx = FixIdle
  /\ run_mode = "interactive"
  /\ generic_input = DefaultGenericInput
  /\ \E style \in {"atomic", "full"} :
       control = SetControl(DefaultControl, "atom_style", <<style>>)
  /\ potential \in Potentials
  /\ interactive_water_bonds \in BOOLEAN
  /\ user_fix_external = NoCallback
  /\ handles = <<>>
  /\ interactive_fetch_completed = TRUE
  /\ buffered = FALSE
  /\ output = NoOutput
  /\ parser = NoParser

\* Calculations are set up and run, each setting the structure and with it
\* the potential
NextPotential ==
  \/ calc_md
  \/ calc_minimize
  \/ run_if_interactive

SpecPotential == InitPotential /\ [][NextPotential]_vars

\* ------------------------------------------------- parsing a log
driver == <<units, lib, structure_current, structure_previous, prism,
            interactive_run_command, interactive_cache, eng, cmds>>

\* The text of a log has been read from its file
InitLog ==
  /\ units = "metal"
  /\ lib = "none"
  /\ structure_current = NoStructure
  /\ structure_previous = NoStructure
  /\ prism = NoPrism
  /\ interactive_run_command = Row("None", <<>>)
  /\ interactive_cache = {}
  /\ eng = ClearedEngine
  /\ cmds = <<>>
  /\ \E log_file \in Logs : call = Call("read", log_file, <<>>, Outcome("None", <<>>))
  /\ fx = FixIdle
  /\ run_mode = "interactive"
  /\ generic_input = DefaultGenericInput
  /\ control = DefaultControl
  /\ potential = NoFiles
  /\ interactive_water_bonds = FALSE
  /\ user_fix_external = NoCallback
  /\ handles = <<>>
  /\ interactive_fetch_completed = TRUE
  /\ buffered = FALSE
  /\ output = NoOutput
  /\ parser = NoParser

\* SphinxLogParser(log_file)
NewSphinxLogParser ==
  /\ call.op = "read"
  /\ \E r \in {SphinxLogParser(call.arg)} :
       /\ parser' = r.parser
       /\ call' = Call("SphinxLogParser", call.arg, <<>>, Outcome(r.raised, <<>>))
  /\ UNCHANGED <<driver, fx, job>>

\* A method is called on the parser: it returns or raises, and the properties
\* it read stay cached
Method(name, r) ==
  /\ parser.constructed
  /\ parser' = r.parser
  /\ call' = Call(name, parser, r.value, Outcome(r.raised, <<>>))
  /\ UNCHANGED <<driver, fx, job>>

\* A log is parsed and each extraction method called on the parser
NextLog ==
  \/ NewSphinxLogParser
  \/ Method("get_energy_free", get_energy_free(parser))
  \/ Method("get_energy_int", get_energy_int(parser))
  \/ Method("get_forces", get_forces(parser))
  \/ Method("get_magnetic_forces", get_magnetic_forces(parser))
  \/ Method("get_volume", get_volume(parser))
  \/ Method("get_convergence", get_convergence(parser))
  \/ Method("get_fermi", get_fermi(parser))
  \/ Method("get_bands_k_weights", get_bands_k_weights(parser))
  \/ Method("k_points", k_points(parser))
  \/ Method("get_band_energy", get_band_energy(parser))
  \/ Method("get_occupancy", get_occupancy(parser))
  \/ Method("get_n_valence", get_n_valence(parser))

SpecLog == InitLog /\ [][NextLog]_vars

\* ------------------------------------------------- sphinx input groups
\* No job is involved: the functions below are functions of their module
NoJob ==
  /\ units = "metal"
  /\ lib = "none"
  /\ structure_current = NoStructure
  /\ structure_previous = NoStructure
  /\ prism = NoPrism
  /\ interactive_run_command = Row("None", <<>>)
  /\ interactive_cache = {}
  /\ eng = ClearedEngine
  /\ cmds = <<>>
  /\ fx = FixIdle
  /\ run_mode = "modal"
  /\ generic_input = DefaultGenericInput
  /\ control = DefaultControl
  /\ potential = NoFiles
  /\ interactive_water_bonds = FALSE
  /\ user_fix_external = NoCallback
  /\ handles = <<>>
  /\ interactive_fetch_completed = TRUE
  /\ buffered = FALSE
  /\ output = NoOutput
  /\ parser = NoParser

\* A Python value: its type, its literal, and the elements of a list
PyValue(kind, v, items) == [kind |-> kind, v |-> v, items |-> items]

\* The values a keyword may carry: None, False, True, 0, 0.0, "", a string, and
\* the lists of up to MaxItems dicts and numbers
Elements ==
  {PyValue("dict", "p", <<>>), PyValue("dict", "q", <<>>), PyValue("int", "1", <<>>)}
Values ==
  {PyValue(k[1], k[2], <<>>) :
     k \in {<<"NoneType", "None">>, <<"bool", "False">>, <<"bool", "True">>,
            <<"int", "0">>, <<"float", "0.0">>, <<"str", "">>, <<"str", "x">>}}
    \cup {PyValue("list", "", l) : l \in UNION {[1..n -> Elements] : n \in 0..MaxItems}}

\* A dict in the order of its keys' insertion: group[key] = value replaces the
\* value of a key that is present and appends a new key
Item(key, value) == [key |-> key, value |-> value]
SetItem(group, key, value) ==
  IF \E i \in 1..Len(group) : group[i].key = key
  THEN [i \in 1..Len(group) |-> IF group[i].key = key THEN Item(key, value) ELSE group[i]]
  ELSE Append(group, Item(key, value))

\* The groups fill_values is called with (the empty one also stands for
\* group=None) and its keywords
Groups ==
  {<<>>,
   <<Item("a", PyValue("str", "x", <<>>))>>,
   <<Item("b", PyValue("int", "0", <<>>)), Item("a", PyValue("list", "", <<>>))>>,
   <<Item("a___0", PyValue("dict", "r", <<>>)), Item("a___1", PyValue("dict", "r", <<>>)),
     Item("a___2", PyValue("dict", "r", <<>>))>>}
Keywords ==
  {<<>>}
    \cup {<<Item(k, v)>> : k \in {"a", "b"}, v \in Values}
    \cup {<<Item(k[1], v), Item(k[2], w)>> :
            k \in {<<"a", "b">>, <<"b", "a">>}, v \in Values, w \in Values}

\* for i, vv in enumerate(v): group[f"{k}___{i}"] = vv, from the element at i on
RECURSIVE Enumerate(_, _, _, _)
Enumerate(group, k, v, i) ==
  IF i > Len(v) THEN group
  ELSE Enumerate(SetItem(group, k \o "___" \o ToString(i - 1), v[i]), k, v, i + 1)

\* A variant of fill_values that keeps the values that are true
RECURSIVE fill_values_truthy(_, _)
fill_values_truthy(group, kwargs) ==
  IF kwargs = <<>> THEN group
  ELSE fill_values_truthy(
         (IF Head(kwargs).value.v \in {"True", "x"} \/ Head(kwargs).value.items # <<>>
          THEN (IF Head(kwargs).value.kind = "list"
                   /\ Len(Head(kwargs).value.items) > 0
                   /\ Head(kwargs).value.items[1].kind = "dict"
                THEN Enumerate(group, Head(kwargs).key, Head(kwargs).value.items, 1)
                ELSE SetItem(group, Head(kwargs).key, Head(kwargs).value))
          ELSE group),
         Tail(kwargs))

\* fill_values(group, **kwargs): a value that is not None and not False is
\* stored under its key, a non-empty list whose first element is a dict under
\* one key per element
RECURSIVE fill_values(_, _)
fill_values(group, kwargs) ==
  IF kwargs = <<>> THEN group
  ELSE fill_values(
         (IF Head(kwargs).value.kind # "NoneType"
             /\ ~(Head(kwargs).value.kind = "bool" /\ Head(kwargs).value.v = "False")
          THEN (IF Head(kwargs).value.kind = "list"
                   /\ Len(Head(kwargs).value.items) > 0
                   /\ Head(kwargs).value.items[1].kind = "dict"
                THEN Enumerate(group, Head(kwargs).key, Head(kwargs).value.items, 1)
                ELSE SetItem(group, Head(kwargs).key, Head(kwargs).value))
          ELSE group),
         Tail(kwargs))

\* A group and keywords are at hand
InitFill ==
  /\ NoJob
  /\ \E group \in Groups : \E kwargs \in Keywords :
       call = Call("input", [group |-> group, kwargs |-> kwargs], <<>>, <<>>)

FillValues ==
  /\ call.op = "input"
  /\ call' = Call("fill_values", call.arg, <<>>,
                  fill_values(call.arg.group, call.arg.kwargs))
  /\ UNCHANGED <<driver, fx, job, parser>>

SpecFill == InitFill /\ [][FillValues]_vars

\* ------------------------------------------------- splitting by SCF counter
\* An array and a counter are at hand: of one length, or one of them empty
InitSplit ==
  /\ NoJob
  /\ \E n \in 0..MaxLen : \E arr \in [1..n -> {10, 20}] : \E c \in [1..n -> 1..MaxLen] :
       \E empty \in {"neither", "arr", "counter"} :
         call = Call("input",
                     [arr |-> IF empty = "arr" THEN <<>> ELSE arr,
                      counter |-> IF empty = "counter" THEN <<>> ELSE c],
                     <<>>, <<>>)

Splitter ==
  /\ call.op = "input"
  /\ call' = Call("splitter", call.arg, <<>>, splitter(call.arg.arr, call.arg.counter))
  /\ UNCHANGED <<driver, fx, job, parser>>

SpecSplit == InitSplit /\ [][Splitter]_vars

\* fix_external, statement by statement. The engine calls it with the atoms in
\* any order and with anything in its force buffer.
FixCalled ==
  /\ fx.pc = "idle"
  /\ \E n \in 1..MaxAtoms : \E tag \in AtomOrders(n) : \E prior \in EngineForces(n) :
       fx' = [fx EXCEPT !.pc = "called", !.tag = tag,
                        !.x = [i \in 1..n |-> AtomPosition(tag[i])],
                        !.heap = [a \in {EngineBuffer, "new"} |->
                                    IF a = EngineBuffer THEN FixedPoint(prior, n) ELSE <<>>],
                        !.fext = EngineBuffer,
                        !.tags = ArgSort(tag),
                        !.received = <<>>, !.forces = <<>>]
  /\ UNCHANGED <<session, job, parser>>

FixFill ==
  /\ fx.pc = "called"
  /\ fx' = [fx EXCEPT !.pc = "filled", !.heap[fx.fext] = Fill0(fx.heap[fx.fext])]
  /\ UNCHANGED <<session, job, parser>>

FixAdd ==
  /\ fx.pc = "filled"
  /\ \E F \in ForceArrays(Len(fx.tag)) :
       fx' = [fx EXCEPT !.pc = "added",
                        !.received = [k \in 1..Len(fx.tags) |-> fx.x[fx.tags[k]]],
                        !.forces = F,
                        !.heap[fx.fext] =
                          AddAt(fx.heap[fx.fext], fx.tags, FixedPoint(F, Len(fx.tag)))]
  /\ UNCHANGED <<session, job, parser>>

FixDebias ==
  /\ fx.pc = "added"
  /\ fx' = [fx EXCEPT !.pc = "done", !.heap[fx.fext] = Debias(fx.heap[fx.fext])]
  /\ UNCHANGED <<session, job, parser>>

\* The callback has returned; the engine may call it again
FixReturn ==
  /\ fx.pc = "done"
  /\ fx' = [fx EXCEPT !.pc = "idle", !.fext = "none"]
  /\ UNCHANGED <<session, job, parser>>

NextFix ==
  \/ FixCalled
  \/ FixFill
  \/ FixAdd
  \/ FixDebias
  \/ FixReturn

SpecFix == Init /\ [][NextFix]_vars

\* ------------------------------------------------------------ properties
ModeTransitions == {"change_box all triclinic", "change_box all ortho"}
BoxDimensions == {"change_box all x y z xy xz yz final", "change_box all x y z final"}

\* The positions in a command sequence of the commands with these names
Where(cs, names) == {i \in 1..Len(cs) : cs[i].name \in names}

\* cs occurs in the sequence all as a contiguous run
IssuedIn(cs, all) ==
  \E off \in 0..(Len(all) - Len(cs)) : \A i \in 1..Len(cs) : all[off + i] = cs[i]

CellIsSkewed(cell) == StructureIsSkewed([cell |-> cell])

\* C1: whenever interactive_cells_setter has run, it issued exactly one
\* box-dimension command; when the skew state changed it issued exactly one
\* mode-transition command: change_box all triclinic before the box-dimension
\* command when the cell became skewed, change_box all ortho after a
\* box-dimension command with all tilt factors 0 when it became orthogonal; when
\* the skew state did not change it issued no mode-transition command.
C1_ModeTransitionOrder ==
  (call.op = "run_if_interactive" /\ call.arg.called) =>
    LET cs == call.arg.cmds
        is == call.arg.is_skewed
        was == call.arg.was_skewed
        modes == Where(cs, ModeTransitions)
        boxes == Where(cs, BoxDimensions)
    IN  /\ IssuedIn(cs, cmds)
        /\ Cardinality(boxes) = 1
        /\ Cardinality(modes) = (IF is = was THEN 0 ELSE 1)
        /\ Len(cs) = Cardinality(boxes) + Cardinality(modes)
        /\ (is /\ ~was) =>
             \E i \in modes : \E j \in boxes :
               i < j /\ cs[i].name = "change_box all triclinic"
        /\ (~is /\ was) =>
             \E i \in modes : \E j \in boxes :
               j < i /\ cs[i].name = "change_box all ortho" /\ cs[j].t = NoTilt

\* C1 witness: interactive_cells_setter has run for a cell that is orthogonal
\* after a skewed one
C1_Witness ==
  /\ call.op = "run_if_interactive"
  /\ call.arg.called
  /\ call.arg.was_skewed
  /\ ~call.arg.is_skewed

\* C2: on a live session the engine's box mode matches the skew state of the
\* cell most recently set by interactive_structure_setter or
\* interactive_cells_setter.
C2_BoxModeMatchesCell ==
  lib = "open" =>
    eng.mode = (IF CellIsSkewed(eng.cell) THEN "triclinic" ELSE "ortho")

\* C3: on a live session the transform held in _prism is the one derived from
\* the cell the engine currently holds.
C3_PrismOfEngineCell ==
  lib = "open" => prism.R = UnfoldingPrism(eng.cell).R

\* What a vector getter returns when it rotates by M and converts once
Pulled(M, label) ==
  convert_array_to_pyiron_units(units, RowsMat(Reshape(call.raw, NAtoms), M), label)

\* C4: unit conversion is applied exactly once at the boundary: a getter
\* returns the engine's value converted once to the caller's units, and the
\* value a setter pushes, converted once to the caller's units, is the
\* caller's value.
C4_ConvertedOnce ==
  /\ call.op = "interactive_positions_getter" =>
       call.ret = Pulled(Transpose(prism.R), "positions")
  /\ call.op = "interactive_forces_getter" =>
       call.ret = Pulled(Transpose(prism.R), "forces")
  /\ call.op = "interactive_cells_getter" =>
       call.ret = convert_array_to_pyiron_units(units, unfold_cell(prism, call.raw), "cells")
  /\ call.op = "interactive_positions_setter" =>
       SameValue(convert_array_to_pyiron_units(units, Reshape(eng.x, NAtoms), "positions"),
                 Exact(RowsMat(call.arg, prism.R)))

\* C5: with the cell fixed, interactive_positions_getter after
\* interactive_positions_setter(p) returns p.
C5_PositionsRoundTrip ==
  (/\ call.op = "interactive_positions_getter"
   /\ eng.p # <<>>
   /\ eng.frame = prism.R) =>
    SameValue(call.ret, Exact(eng.p))

Symmetric(c) == <<<<c[1], c[4], c[5]>>, <<c[4], c[2], c[6]>>, <<c[5], c[6], c[3]>>>>

\* The engine's per-atom stress of the atom with this ID, in the getter's units
\* and before any rotation
AtomStress(id) ==
  LET i == CHOOSE j \in 1..NAtoms : call.raw.ids[j] = id
  IN  ScaleRows(Symmetric(call.raw.ss[i]), StressFactor[1])

\* The engine's pressure tensor, before any rotation
ThermoTensor == Symmetric(call.raw)

C8_StressInIdOrder ==
  call.op = "interactive_stress_getter" =>
    /\ call.ret.den = StressFactor[2]
    /\ \A k \in 1..NAtoms :
         call.ret.num[k] =
           (IF Trace(prism.R) # 3
            THEN MatMul(MatMul(prism.R, AtomStress(k)), Transpose(prism.R))
            ELSE AtomStress(k))

\* C8 witness: the stress was read while the engine held three atoms in an
\* order that is not its own inverse, under a rotated cell
C8_Witness ==
  /\ call.op = "interactive_stress_getter"
  /\ NAtoms = 3
  /\ call.raw.ids = <<2, 3, 1>>
  /\ Trace(prism.R) # 3

\* C9: when fix_external returns, every column of the engine's force buffer
\* sums to zero.
C9_ZeroNetForce ==
  fx.pc = "done" => \A c \in Dim : ColumnSum(fx.heap[EngineBuffer], c) = 0

\* C9 witness: fix_external has returned for two or more atoms and user forces
\* whose sum is not zero
C9_Witness ==
  /\ fx.pc = "done"
  /\ Len(fx.tag) >= 2
  /\ \E c \in Dim : ColumnSum(fx.forces, c) # 0

\* C10: the user function receives the positions in ascending order of atom
\* ID; before debiasing the buffer slot of the atom with ID k holds exactly the
\* force returned at index k (nothing of the previous content); the callback
\* works on the engine's buffer itself, creates no other array, and no name
\* refers to the buffer once it has returned.
C10_ReorderedInPlace ==
  LET n == Len(fx.tag)
  IN  /\ fx.pc \in {"added", "done"} =>
           fx.received = [k \in 1..n |-> AtomPosition(k)]
      /\ fx.pc = "added" =>
           \A i \in 1..n :
             fx.heap[EngineBuffer][i] = ScaleVec(fx.forces[fx.tag[i]], n)
      /\ fx.pc # "idle" => fx.fext = EngineBuffer
      /\ fx.heap["new"] = <<>>
      /\ fx.pc = "idle" => fx.fext = "none"
      /\ fx.self = [function |-> "function"]

\* C10 witness: forces that differ between atoms were added for three atoms
\* held in an order that is not its own inverse, over a buffer that was not
\* empty
C10_Witness ==
  /\ fx.pc = "added"
  /\ fx.tag = <<2, 3, 1>>
  /\ fx.forces[1] # fx.forces[2]
  /\ fx.forces[2] # fx.forces[3]
  /\ \E i \in 1..3 : fx.heap[EngineBuffer][i] # <<0, 0, 0>>

\* ------------------------------------------------- registration of a callback
\* The calls the last operation made under the given name
Made(name) == SelectSeq(call.ret.events, LAMBDA e : e.name = name)

\* C11: set_fix_external raises AssertionError whenever the run mode is not
\* interactive, and such a call leaves _user_fix_external and the control
\* input as they were; in interactive mode it does not raise
C11_RegistrationNeedsInteractive ==
  [][call'.op = "set_fix_external" =>
       IF run_mode # "interactive"
       THEN /\ call'.ret.raised = "AssertionError"
            /\ user_fix_external' = user_fix_external
            /\ control' = control
       ELSE call'.ret.raised = "None"]_vars

\* A registration was refused in non-modal mode on a job whose control input
\* a calculation had edited
C11_Witness ==
  /\ call.op = "set_fix_external"
  /\ run_mode = "interactive_non_modal"
  /\ call.ret.raised = "AssertionError"
  /\ user_fix_external = NoCallback
  /\ HasKey(control, "minimize")
  /\ ~HasKey(control, "fix___fix_external")

\* C12: the calling convention is resolved at registration and nowhere else:
\* with overload_internal_fix_external the callable is the user's function,
\* without it the wrapper's method, each of the function registered last; the
\* callable handed to the engine is the one the registration resolved
C12_ConventionResolvedAtRegistration ==
  [][/\ (call'.op = "set_fix_external" /\ call'.ret.raised = "None") =>
          /\ user_fix_external'.function = call'.arg.function
          /\ user_fix_external'.fix_external =
               [kind |-> IF call'.arg.overload THEN "function"
                         ELSE "_FixExternal.fix_external",
                function |-> call'.arg.function]
     /\ call'.op # "set_fix_external" => user_fix_external' = user_fix_external
     /\ (call'.op = "run_if_interactive"
         /\ \E i \in DOMAIN call'.ret.events :
              call'.ret.events[i].name = "set_fix_external_callback") =>
          /\ user_fix_external # NoCallback
          /\ handles'[Len(handles')].callback = user_fix_external.fix_external]_vars

\* A run handed the engine the function g itself, as registered
C12_Witness ==
  /\ call.op = "run_if_interactive"
  /\ Made("set_fix_external_callback") # <<>>
  /\ handles[Len(handles)].callback = [kind |-> "function", function |-> "g"]
  /\ user_fix_external = FixExternal("g", TRUE)

\* ------------------------------------------------- the life cycle of a session
\* C13: interactive_execute issues a command only on a handle that
\* interactive_initialize_interface created, with the run command it set, and
\* never on a handle that interactive_close released: no operation issues a
\* command while there is no handle, and a call of interactive_execute without
\* a handle raises and issues nothing
C13_ExecuteOnlyOnLiveHandle ==
  /\ lib = "none" => cmds = <<>> /\ Made("interactive_execute") = <<>>
  /\ Made("interactive_execute") # <<>> =>
       /\ lib = "open"
       /\ handles # <<>>
       /\ handles[Len(handles)].closed = 0
       /\ interactive_run_command # Row("None", <<>>)
       /\ \A i \in DOMAIN call.ret.events :
            call.ret.events[i].name = "interactive_execute" =>
              call.ret.events[i].cmd = RowCommand(interactive_run_command)
  /\ (call.op = "interactive_execute" /\ lib = "none") =>
       call.ret.raised = IF handles = <<>> THEN "TypeError" ELSE "AttributeError"

\* interactive_execute was called after interactive_close had released the
\* handle of a session that had run
C13_Witness ==
  /\ call.op = "interactive_execute"
  /\ lib = "none"
  /\ handles # <<>>
  /\ handles[Len(handles)].closed = 1
  /\ interactive_run_command # Row("None", <<>>)
  /\ call.ret.raised = "AttributeError"
  /\ cmds = <<>>

\* C14: interactive_close on a session that is not activated makes no call
\* (no close on a handle, no access to the result store) and changes nothing,
\* so that a second close in a row is a no-op; no handle is closed twice
C14_CloseIdempotent ==
  /\ [](\A h \in DOMAIN handles : handles[h].closed <= 1)
  /\ [][(call'.op = "interactive_close" /\ lib = "none") =>
          /\ call'.ret = Outcome("None", <<>>)
          /\ UNCHANGED <<handles, lib, output, buffered, eng, prism, control,
                         interactive_run_command, interactive_fetch_completed,
                         user_fix_external, structure_previous>>]_vars

\* A second interactive_close followed the close of a session that had steps
\* to flush
C14_Witness ==
  /\ call.op = "interactive_close"
  /\ call.ret.events = <<>>
  /\ handles # <<>>
  /\ handles[Len(handles)].closed = 1
  /\ output.has_interactive
  /\ lib = "none"

C16_FetchLenient ==
  call.op = "interactive_fetch" =>
    /\ call.ret.raised = "None"
    /\ IF call.arg /\ run_mode = "interactive_non_modal"
       THEN call.ret.events = <<Did("print")>>
       ELSE /\ Len(Made("interactive_collect")) = 1
            /\ Made("print") = <<>>

\* A second interactive_fetch in non-modal mode found nothing pending on a
\* live session
C16_Witness ==
  /\ call.op = "interactive_fetch"
  /\ run_mode = "interactive_non_modal"
  /\ call.arg
  /\ lib = "open"
  /\ buffered
  /\ call.ret.events = <<Did("print")>>

\* ------------------------------------------------- the potential
\* The commands that define the potential: its lines and the water setter's
PotentialCommands ==
  {Plain(PotentialLines[i]) : i \in 1..Len(PotentialLines)}
    \cup {InteractiveWaterSetter[i] : i \in 1..Len(InteractiveWaterSetter)}

MissingFile == \E i \in 1..Len(potential.files) : potential.files[i] \notin potential.on_disk

\* C19: when a file of input.potential.files is missing, an operation that
\* sets the structure raises ValueError, issues no potential line and no
\* water-bond command, sets the structure once and executes no step
C19_MissingPotentialRaisesFirst ==
  (MissingFile /\ \E i \in 1..Len(cmds) : cmds[i] = Plain("clear")) =>
    /\ call.ret.raised = "ValueError"
    /\ \A i \in 1..Len(cmds) : cmds[i] \notin PotentialCommands
    /\ Len(SelectSeq(cmds, LAMBDA c : c = Plain("clear"))) = 1
    /\ call.ret.events = <<>>

\* The first run of a job with atom style full and water bonds found one of
\* its two potential files missing
C19_Witness ==
  /\ call.op = "run_if_interactive"
  /\ call.ret.raised = "ValueError"
  /\ ControlValue(control, "atom_style") = <<"full">>
  /\ interactive_water_bonds
  /\ Len(potential.files) = 2
  /\ Len(cmds) > 0
  /\ cmds[Len(cmds)] \notin PotentialCommands

\* ------------------------------------------------- the steps of a run
\* The calls of a run but for the handing of the callback
Steps == SelectSeq(call.ret.events, LAMBDA e : e.name # "set_fix_external_callback")

C17_ConstructionChecksMainLoop ==
  call.op = "SphinxLogParser" =>
    /\ call.ret.raised =
         IF \E i \in 1..Len(call.arg) : call.arg[i] = Marker THEN "None"
         ELSE "AssertionError"
    /\ parser.constructed = (call.ret.raised = "None")
    /\ parser.constructed =>
         /\ parser.log_file = call.arg
         /\ \A f \in {"_log_main", "_counter", "_n_atoms", "_n_steps"} :
              ~parser[f].cached

\* A log of energies and forces that never entered the main loop was refused
C17_Witness ==
  /\ call.op = "SphinxLogParser"
  /\ call.arg = <<"F(0)=-1.5", "Atom: 0 {1,2,3}">>
  /\ call.ret.raised = "AssertionError"
  /\ ~parser.constructed

\* The lines each extraction method looks for
Fields ==
  [get_energy_free |-> {"F(0)=-1.5"}, get_energy_int |-> {"eTot(0)=-1.4"},
   get_forces |-> {"Atom: 0 {1,2,3}"}, get_magnetic_forces |-> {"nu(0) = 0.5"},
   get_volume |-> {"Omega: 10"}, get_convergence |-> {"Convergence reached."},
   get_fermi |-> {"Fermi energy: 1.5 eV"}, get_bands_k_weights |-> {KPointBlock},
   k_points |-> {KPointBlock}, get_band_energy |-> {"final eig [eV]: 1 2"},
   get_occupancy |-> {"final focc: 1 1"}, get_n_valence |-> {"| Z=26"}]

\* C18: on a log that passed the check, an extraction method whose field is
\* absent from the log does not raise and returns the empty result (zero
\* volumes for get_volume, False for get_convergence)
C18_AbsentFieldsGiveDefaults ==
  (call.op \in DOMAIN Fields /\ FindAll(Fields[call.op], call.arg.log_file) = <<>>) =>
    /\ call.ret.raised = "None"
    /\ CASE call.op = "get_volume" ->
              \A i \in DOMAIN call.raw : call.raw[i] = Number("0", "1")
         [] call.op = "get_convergence" ->
              \A i \in DOMAIN call.raw : call.raw[i] = FALSE
         [] OTHER -> DOMAIN call.raw = {}

\* ------------------------------------------------- the callback and the run command
\* C21: whenever a run (or minimize) command is executed while the engine
\* holds the fix fix_external, the callback has been handed to the engine
\* since the last clear
C21_CallbackHandedBeforeRun ==
  ((\E i \in DOMAIN call.ret.events :
      /\ call.ret.events[i].name = "interactive_execute"
      /\ call.ret.events[i].cmd.name \in {"run", "minimize"})
   /\ "fix_external" \in eng.defined)
    => eng.callback

C23_StressComputeDefined ==
  call.op = "interactive_stress_getter" => "st" \in eng.defined

\* ------------------------------------------------- non-modal runs
\* The calls the next operation makes under the given name
Makes(name) == SelectSeq(call'.ret.events, LAMBDA e : e.name = name)

C25_NoRunLost ==
  [][(call'.op = "run_if_interactive_non_modal" /\ call'.ret.raised = "None") =>
       /\ ~interactive_fetch_completed'
       /\ Len(Makes("interactive_execute")) = 1
       /\ call'.ret.events[Len(call'.ret.events)].name = "interactive_execute"
       /\ ~interactive_fetch_completed =>
            /\ Len(Makes("interactive_collect")) = 1
            /\ buffered']_vars

\* A non-modal run found the step before it pending and collected it first
C25_Witness ==
  /\ call.op = "run_if_interactive_non_modal"
  /\ Len(call.ret.events) = 3
  /\ call.ret.events[2] = Did("interactive_collect")
  /\ call.ret.events[3].name = "interactive_execute"
  /\ ~interactive_fetch_completed
  /\ buffered

\* ------------------------------------------------- the potential's lines
\* How often the loop over the potential's lines has sent a line: the commands
\* of that text but for those of the water setter
LoopSent(line) ==
  Len(SelectSeq(cmds, LAMBDA c : c = Plain(line)))
    - (IF ControlValue(control, "atom_style") = <<"full">> /\ interactive_water_bonds
       THEN Len(SelectSeq(InteractiveWaterSetter, LAMBDA c : c = Plain(line)))
       ELSE 0)

\* C26: an operation that sets the structure sends each line of the potential
\* at most once, and with atom style full its loop over the lines sends no
\* pair or kspace line, whether or not the potential lists files
C26_PotentialLinesOnce ==
  ((\E i \in 1..Len(cmds) : cmds[i] = Plain("clear")) /\ call.ret.raised = "None") =>
    \A i \in 1..Len(PotentialLines) :
      /\ LoopSent(PotentialLines[i]) <= 1
      /\ ControlValue(control, "atom_style") = <<"full">> =>
           LoopSent(PotentialLines[i]) = 0

\* ------------------------------------------------- setting the structure
\* The control entries the engine has no use for in a live session
Skipped ==
  {"read_data", "units", "dimension", "boundary", "atom_style", "atom_modify",
   "include", "run", "minimize"}

\* The commands up to the control input's: those of the box, the masses and
\* the atoms
BoxCommands ==
  <<Plain("clear"), Plain("units"), Plain("dimension"), Plain("boundary"),
    Plain("atom_style"), Plain("atom_modify map array"),
    Cmd(IF PrismIsSkewed(prism) THEN "region 1 prism" ELSE "region 1 block", prism.l,
        IF PrismIsSkewed(prism) THEN prism.t ELSE <<>>),
    Plain("create_box")>>
  \o [i \in 1..Len(PotentialElements) |-> Cmd("mass", <<i>>, <<>>)]
  \o <<Plain("create_atoms"), Plain("change_box all remap")>>

\* C27: an operation that sets the structure issues clear, units, dimension,
\* boundary, atom_style, atom_modify map array, one region command (prism if
\* and only if the new cell is skewed, else block), create_box, one mass per
\* element of the potential, create_atoms, change_box all remap, then the
\* entries of the control input in their order but for read_data, units,
\* dimension, boundary, atom_style, atom_modify, include, run and minimize, and
\* then the commands of the potential; the steps of a run follow
C27_StructureSetterOrder ==
  (cmds # <<>> /\ cmds[1] = Plain("clear") /\ call.ret.raised = "None") =>
    LET forwarded == SelectSeq(ControlKeys(control), LAMBDA k : k \notin Skipped)
        n == Len(BoxCommands)
        m == Len(forwarded)
    IN  /\ Len(cmds) >= n + m
        /\ SubSeq(cmds, 1, n) = BoxCommands
        /\ \A i \in 1..m : cmds[n + i] = Plain(forwarded[i])
        /\ \A i \in (n + m + 1)..Len(cmds) :
             \/ cmds[i] \in PotentialCommands
             \/ /\ cmds[i].name \in {"run", "minimize"}
                /\ \A j \in i..Len(cmds) : cmds[j] \notin PotentialCommands
        /\ Len(SelectSeq(cmds, LAMBDA c : c.name \in {"region 1 prism", "region 1 block"})) = 1

\* A calculation was set up on a live session whose structure has a skewed
\* cell, atom style full and water bonds
C27_Witness ==
  /\ call.op \in {"calc_md", "calc_minimize"}
  /\ call.ret.raised = "None"
  /\ Len(cmds) > Len(BoxCommands)
  /\ cmds[7].name = "region 1 prism"
  /\ cmds[Len(cmds)] = Plain("kspace_style")

\* ------------------------------------------------- the getters
\* The getters that only read the engine
Readers ==
  {"interactive_positions_getter", "interactive_forces_getter",
   "interactive_cells_getter", "interactive_volume_getter",
   "interactive_energy_pot_getter", "interactive_energy_tot_getter",
   "interactive_temperatures_getter", "interactive_steps_getter",
   "interactive_indices_getter", "interactive_pressures_getter"}

\* C28: the getters of positions, forces, cell, volume, energies, temperature,
\* step count, type indices and pressures issue no command and leave the
\* transform, the run command, the result cache and the engine as they are;
\* the stress getter issues its compute definition and run 0 when the key
\* stress is not in the cache and nothing when it is, and leaves the transform
\* and the run command as they are
C28_GettersOnlyRead ==
  [][/\ call'.op \in Readers =>
          /\ cmds' = <<>>
          /\ UNCHANGED <<prism, interactive_run_command, interactive_cache, eng, units,
                         structure_current, structure_previous>>
     /\ call'.op = "interactive_stress_getter" =>
          /\ cmds' = IF "stress" \in interactive_cache THEN <<>>
                     ELSE <<Plain("compute st all stress/atom NULL"), Plain("run 0")>>
          /\ "stress" \in interactive_cache'
          /\ UNCHANGED <<prism, interactive_run_command>>]_vars

\* The stress getter was called with its compute defined and the key cached
C28_Witness ==
  /\ call.op = "interactive_stress_getter"
  /\ cmds = <<>>
  /\ "stress" \in interactive_cache
  /\ "st" \in eng.defined

\* ------------------------------------------------- filling a group
\* The keys of a group and the value under one of them
Keys(group) == {group[i].key : i \in 1..Len(group)}
Get(group, key) == group[CHOOSE i \in 1..Len(group) : group[i].key = key].value

\* The value is neither None nor False
Present(v) == v \notin {PyValue("NoneType", "None", <<>>), PyValue("bool", "False", <<>>)}

\* The value is a list that starts with a dict
Expands(v) == v.kind = "list" /\ v.items # <<>> /\ v.items[1].kind = "dict"

\* The keys a keyword names: its own, or one per element of its list
Named(kw) ==
  IF ~Present(kw.value) THEN {}
  ELSE IF Expands(kw.value)
  THEN {kw.key \o "___" \o ToString(i - 1) : i \in 1..Len(kw.value.items)}
  ELSE {kw.key}

\* C29: fill_values stores the value of a keyword under its key exactly when
\* the value is neither None nor False (0, 0.0, "" and [] are stored); a
\* non-empty list whose first element is a dict is stored element by element
\* under key___0 .. key___(n-1) and not under its key; the keys of the group
\* that no keyword names keep their values and their order, and no key is
\* removed
C29_FillValues ==
  call.op = "fill_values" =>
    /\ Keys(call.ret) =
         Keys(call.arg.group) \cup UNION {Named(call.arg.kwargs[i]) : i \in 1..Len(call.arg.kwargs)}
    /\ Len(call.ret) = Cardinality(Keys(call.ret))
    /\ \A i \in 1..Len(call.arg.group) :
         /\ call.ret[i].key = call.arg.group[i].key
         /\ (\A j \in 1..Len(call.arg.kwargs) :
               call.arg.group[i].key \notin Named(call.arg.kwargs[j]))
              => call.ret[i] = call.arg.group[i]
    /\ \A j \in 1..Len(call.arg.kwargs) :
         /\ (Present(call.arg.kwargs[j].value) /\ ~Expands(call.arg.kwargs[j].value)) =>
              Get(call.ret, call.arg.kwargs[j].key) = call.arg.kwargs[j].value
         /\ (Present(call.arg.kwargs[j].value) /\ Expands(call.arg.kwargs[j].value)) =>
              \A i \in 1..Len(call.arg.kwargs[j].value.items) :
                Get(call.ret, call.arg.kwargs[j].key \o "___" \o ToString(i - 1))
                  = call.arg.kwargs[j].value.items[i]

\* A group with keys was filled with a 0, which is stored, and a list of two
\* dicts, which is stored as two keys
C29_Witness ==
  /\ call.op = "fill_values"
  /\ call.arg.group # <<>>
  /\ "b" \in Keys(call.ret)
  /\ Get(call.ret, "b") = PyValue("int", "0", <<>>)
  /\ "a" \notin Keys(call.ret)
  /\ {"a___0", "a___1"} \subseteq Keys(call.ret)
  /\ Get(call.ret, "a___1") = PyValue("dict", "q", <<>>)

\* ------------------------------------------------- splitting
\* The segments one after the other
RECURSIVE Concat(_)
Concat(segments) ==
  IF segments = <<>> THEN <<>> ELSE Head(segments) \o Concat(Tail(segments))

\* The places (from 1) where the counter has its least value
Least(c) == {i \in 1..Len(c) : \A j \in 1..Len(c) : c[i] <= c[j]}

\* C30: splitter returns the empty list when arr or counter is empty; for arr
\* and counter of one length it returns one segment per place where counter
\* has its least value, each segment starting at such a place, and the
\* segments one after the other are arr
C30_SplitterPartitions ==
  call.op = "splitter" =>
    IF call.arg.arr = <<>> \/ call.arg.counter = <<>> THEN call.ret = <<>>
    ELSE Len(call.arg.arr) = Len(call.arg.counter) =>
           /\ Len(call.ret) = Cardinality(Least(call.arg.counter))
           /\ \A n \in 1..Len(call.ret) :
                Len(Concat(SubSeq(call.ret, 1, n - 1))) + 1 \in Least(call.arg.counter)
           /\ Concat(call.ret) = call.arg.arr

====
